---- MODULE Spec2Model ----
(***************************************************************************)
(* Frame pipeline, safety interlock, heartbeat watchdog and DMX output of  *)
(* photonic_synesthesia.                                                   *)
(*                                                                         *)
(* Time is counted in units of 0.25 s: a configured duration of 1.0 s is 4.*)
(* Beat confidence is counted in hundredths (0.30 is 30) and the strobe    *)
(* budget in tenths of a hertz.                                            *)
(***************************************************************************)
EXTENDS Integers, Sequences, FiniteSets, TLC

VARIABLES
    \* ---- frame state (core/state.py PhotonicState) ----
    stage,              \* the stage of the tick that runs next
    timestamp,          \* state["timestamp"]
    fixture_commands,   \* state["fixture_commands"]
    dmx_universe,       \* state["dmx_universe"]
    safety_state,       \* state["safety_state"]
    beat_confidence,    \* state["beat_info"]["confidence"], hundredths
    strobe_budget,      \* state["director_state"]["strobe_budget_hz"], tenths
    \* ---- SafetyConstraintInterpreter ----
    last_channel_values,
    \* ---- SafetyInterlockNode ----
    si_last_heartbeat,
    strobe_timestamps,
    strobe_start_time,
    in_cooldown,
    cooldown_end,
    last_strobe_active,
    emergency_stop,
    \* ---- DMXOutputNode ----
    universe,           \* self._universe, the canonical buffer
    blackout_requested, \* self._blackout_requested
    dmx_double_buffer,  \* self.dmx_double_buffer
    raised,             \* the exception that left the tick, "None" when none did
    interface_type,     \* config.interface_type
    lock,               \* the holder of self._lock, "free" when none
    out_running,        \* self._running
    tx_thread,          \* self._thread: "None" or "thread"
    transport_attr,     \* self._serial / self._artnet: "None" or "object"
    transport_state,    \* the transport itself: "unopened", "open" or "closed"
    frames_sent,        \* self._frames_sent
    errors,             \* self._errors
    \* ---- the threads that use the output ----
    out_pc,             \* pipeline thread: its position in an output operation
    next_universe,      \* pipeline thread: the local buffer of __call__
    apply_todo,         \* pipeline thread: items _apply_fixture_commands has left
    mon_pc,             \* monitor thread: its position in blackout()
    tx_pc,              \* transmit thread: its position in _transmit_loop
    tx_data,            \* transmit thread: the local `data` of _send_frame
    wire,               \* the last data written to the transport, << >> at first
    last_complete,      \* the canonical buffer as the last completed operation left it
    \* ---- graph/nodes/safety_interlock.py HeartbeatWatchdog ----
    wd_now,                 \* time.monotonic()
    wd_timeout_s,           \* self._timeout_s
    wd_check_interval_s,    \* self._check_interval_s
    wd_last_heartbeat,      \* self._last_heartbeat
    wd_timeout_triggered,   \* self._timeout_triggered
    wd_running,             \* self._running
    wd_pc,                  \* watchdog thread: "none", "loop", "sleep" or "dead"
    wd_wake,                \* watchdog thread: the time its sleep ends
    wd_started_at,          \* the time of the start() that set it running
    wd_callbacks,           \* the number of calls of self._on_timeout
    \* ---- graph/builder.py PhotonicGraph ----
    g_running,          \* self._running
    g_nodes,            \* the nodes whose background resource is started
    g_idx,              \* start()/stop(): the position in the node order
    run_pc,             \* run_loop: its position
    run_exc,            \* run_loop: the exception in flight, "None" when none
    run_propagated,     \* the exception that left run_loop
    run_stopped,        \* the stop() of the finally block has returned
    stop_signalled,     \* stop() was called by the signal handler during run_loop
    frame_number,       \* the ticks run_loop has completed
    \* ---- the background resources of the sensor nodes, and their caller ----
    audio_running,      \* AudioSenseNode._running
    audio_stream,       \* AudioSenseNode._stream: "None" or "stream"
    open_streams,       \* the input streams created and not closed
    midi_running,       \* MidiSenseNode._running
    midi_port,          \* MidiSenseNode._port: "None" or "port"
    open_ports,         \* the MIDI ports opened and not closed
    life_pc,            \* the caller of PhotonicGraph: "idle", "start" or "stop"
    life_exc,           \* the exception that left its last call, "None" when none
    life_calls,         \* the calls of start() and stop() it has made
    \* ---- DMXOutputNode.start ----
    start_exc,          \* the exception its last call raised, NoException when none
    \* ---- SafetyConstraintInterpreter ----
    max_delta_per_frame,    \* self.max_delta_per_frame
    \* ---- dmx/artnet.py and DMXOutputNode._artnet_universe_address ----
    artnet_config,      \* DMXConfig: artnet_net, artnet_subnet and universe
    an_pc,              \* the caller: "idle", "addressed", "built" or "failed"
    an_address,         \* the result of _artnet_universe_address
    an_call,            \* the arguments of the call of build_artdmx_packet
    an_packet,          \* the bytes it returned, << >> when none
    an_raised,          \* the exception it raised, "None" when none
    \* ---- dmx/universe.py ----
    ub_universe,        \* the universe buffer handed to extract_channel_payload
    ub_payload,         \* the payload it returned, << >> when none
    \* ---- HeartbeatWatchdog, its poll and beat() statement by statement ----
    wd_on_timeout,      \* self._on_timeout: "request_blackout" or "blackout"
    out_offers_request, \* the output object has a callable request_blackout
    wd_elapsed,         \* _run_loop: its local elapsed
    beat_pc,            \* the caller of beat(): "idle" or "reset"
    wd_fired_since_beat \* the calls of self._on_timeout since beat() last returned

frameVars  == <<stage, timestamp, fixture_commands, dmx_universe, safety_state,
                beat_confidence, strobe_budget>>
interpVars == <<last_channel_values>>
silVars    == <<si_last_heartbeat, strobe_timestamps, strobe_start_time,
                in_cooldown, cooldown_end, last_strobe_active, emergency_stop>>
outVars    == <<universe, blackout_requested, dmx_double_buffer, raised>>
ioVars     == <<interface_type, lock, out_running, tx_thread, transport_attr,
                transport_state, frames_sent, errors, out_pc, next_universe,
                apply_todo, mon_pc, tx_pc, tx_data, wire, last_complete>>
pipeVars   == <<frameVars, interpVars, silVars, outVars, ioVars>>
wdVars     == <<wd_now, wd_timeout_s, wd_check_interval_s, wd_last_heartbeat,
                wd_timeout_triggered, wd_running, wd_pc, wd_wake, wd_started_at,
                wd_callbacks>>
runVars    == <<g_running, g_nodes, g_idx, run_pc, run_exc, run_propagated,
                run_stopped, stop_signalled, frame_number>>
lifeVars   == <<audio_running, audio_stream, open_streams, midi_running,
                midi_port, open_ports, life_pc, life_exc, life_calls>>
errVars    == <<start_exc>>
artnetVars == <<artnet_config, an_pc, an_address, an_call, an_packet, an_raised,
                ub_universe, ub_payload>>
raceVars   == <<wd_on_timeout, out_offers_request, wd_elapsed, beat_pc,
                wd_fired_since_beat>>
auxVars    == <<max_delta_per_frame, artnetVars, raceVars>>
extVars    == <<lifeVars, errVars, auxVars>>
vars       == <<pipeVars, wdVars, runVars, extVars>>

----------------------------------------------------------------------------
(* Bounds of the model *)

MaxTime == 5
MaxCmds == 1
StrobeMaxTime == 8
MaxFrames == 1
MaxWdTime == 14
MaxTicks == 2
MaxCalls == 3
MaxErrors == 1
MaxInterpTime == 3

----------------------------------------------------------------------------
(* dmx/universe.py *)

DMX_START_CODE == 0
DMX_START_CODE_INDEX == 0
DMX_CHANNEL_COUNT == 512
DMX_CHANNEL_MIN == 1
DMX_CHANNEL_MAX == DMX_CHANNEL_COUNT
DMX_UNIVERSE_SIZE == DMX_CHANNEL_COUNT + 1

\* bytearray(DMX_UNIVERSE_SIZE): a buffer is indexed 0 .. DMX_UNIVERSE_SIZE-1
create_universe_buffer ==
    [i \in 0..(DMX_UNIVERSE_SIZE - 1) |->
        IF i = DMX_START_CODE_INDEX THEN DMX_START_CODE ELSE 0]

\* a range test that admits the start code index
is_valid_dmx_index(channel) ==
    DMX_START_CODE_INDEX <= channel /\ channel <= DMX_CHANNEL_MAX
is_valid_dmx_channel(channel) ==
    DMX_CHANNEL_MIN <= channel /\ channel <= DMX_CHANNEL_MAX

----------------------------------------------------------------------------
(* Python helpers *)

None == -1

PyMin(a, b) == IF b < a THEN b ELSE a
PyMax(a, b) == IF b > a THEN b ELSE a

SetMin(S) == CHOOSE x \in S : \A y \in S : x <= y

\* dict.get(key, default)
DictGet(d, k, default) == IF k \in DOMAIN d THEN d[k] ELSE default

\* d[k] = v on a dict (inserts the key when it is missing)
DictSet(d, k, v) == [x \in (DOMAIN d) \cup {k} |-> IF x = k THEN v ELSE d[x]]

----------------------------------------------------------------------------
(* core/config.py: the configuration the model runs under *)

y_axis_max == 100
min_scan_speed == 30
y_channel_offset == 3
speed_channel_offset == 4
max_rate_hz == 1
max_duration_s == 1
cooldown_s == 4
heartbeat_timeout_s == 4
min_beat_confidence == 30
graceful_degradation == TRUE
DEFAULT_MAX_DELTA_PER_FRAME == 36

\* settings.fixtures
Fixtures ==
    << [id |-> "laser-1", type |-> "laser", start_address |-> 10, enabled |-> TRUE],
       [id |-> "mover-1", type |-> "moving_head", start_address |-> 20, enabled |-> TRUE],
       [id |-> "panel-1", type |-> "panel", start_address |-> 40, enabled |-> TRUE] >>

FixtureSet == {Fixtures[i] : i \in 1..Len(Fixtures)}

\* core/state.py FixtureCommand; channel_values is a dict channel -> value
FixtureCommand(fid, ftype, values) ==
    [fixture_id |-> fid, fixture_type |-> ftype, channel_values |-> values]

----------------------------------------------------------------------------
(* interpreters/safety.py SafetyConstraintInterpreter *)

\* strobe_budget_hz arrives in tenths of a hertz; int() truncates
strobe_budget_to_dmx(budget_tenths) ==
    LET max_safe_tenths == PyMax(1, 10 * max_rate_hz)
    IN  IF budget_tenths <= 0 THEN 0
        ELSE IF budget_tenths >= max_safe_tenths THEN 255
        ELSE (budget_tenths * 255) \div max_safe_tenths

\* the slew limit of one channel: the value committed for `target` after `prev`
\* (a channel that snaps to its target, clamped to a byte)
SmoothChannelSnap(prev, target) == PyMin(255, PyMax(0, target))
SmoothChannel(prev, target) ==
    LET delta == target - prev
        moved == IF delta > max_delta_per_frame THEN prev + max_delta_per_frame
                 ELSE IF delta < -max_delta_per_frame THEN prev - max_delta_per_frame
                 ELSE target
    IN  PyMin(255, PyMax(0, moved))

\* the laser and strobe clamps of _interpret_single, before smoothing
ConstrainValues(fixture_type, values0, budget_tenths) ==
    LET base == IF DOMAIN values0 = {} THEN 1 ELSE SetMin(DOMAIN values0)
        y_channel == base + y_channel_offset
        movement_channel == base + speed_channel_offset
        values1 == IF fixture_type = "laser" /\ y_channel \in DOMAIN values0
                   THEN [values0 EXCEPT ![y_channel] = PyMin(@, y_axis_max)]
                   ELSE values0
        values2 == IF fixture_type = "laser" /\ movement_channel \in DOMAIN values1
                   THEN [values1 EXCEPT ![movement_channel] = PyMax(@, min_scan_speed)]
                   ELSE values1
        strobe_limit == strobe_budget_to_dmx(budget_tenths)
        strobe_channel == IF fixture_type = "moving_head" THEN base + 6 ELSE base + 4
    IN  IF fixture_type \in {"moving_head", "panel"} /\ strobe_channel \in DOMAIN values2
        THEN [values2 EXCEPT ![strobe_channel] = PyMin(@, strobe_limit)]
        ELSE values2

\* _interpret_single: the interpreted command and the updated channel memory
interpret_single(command, budget_tenths, last) ==
    LET values == ConstrainValues(command.fixture_type, command.channel_values,
                                  budget_tenths)
        smoothed == [ch \in DOMAIN values |->
                        SmoothChannel(DictGet(last, ch, 0), values[ch])]
    IN  [command |-> FixtureCommand(command.fixture_id, command.fixture_type, smoothed),
         last |-> [ch \in (DOMAIN last) \cup (DOMAIN smoothed) |->
                      IF ch \in DOMAIN smoothed THEN smoothed[ch] ELSE last[ch]]]

\* interpret: the commands in order, the channel memory threaded through
RECURSIVE interpret(_, _, _)
interpret(commands, budget_tenths, last) ==
    IF commands = << >> THEN [commands |-> << >>, last |-> last]
    ELSE LET first == interpret_single(Head(commands), budget_tenths, last)
             rest == interpret(Tail(commands), budget_tenths, first.last)
         IN  [commands |-> <<first.command>> \o rest.commands, last |-> rest.last]

----------------------------------------------------------------------------
(* graph/nodes/safety_interlock.py SafetyInterlockNode *)

\* self._laser_fixtures
laser_fixtures == SelectSeq(Fixtures, LAMBDA f : f.type = "laser")

\* _derive_strobe_channels
derive_strobe_channels ==
    {f.start_address + 6 : f \in {g \in FixtureSet : g.type = "moving_head"}}
    \cup {f.start_address + 4 : f \in {g \in FixtureSet : g.type = "panel"}}

\* _emergency_blackout
emergency_blackout == create_universe_buffer

\* Check 3 on one command's channel_values for one laser fixture
ClampLaserValues(ch_vals, fixture) ==
    LET y_channel == fixture.start_address + y_channel_offset
        speed_channel == fixture.start_address + speed_channel_offset
        v1 == IF y_channel \in DOMAIN ch_vals /\ ch_vals[y_channel] > y_axis_max
              THEN [ch_vals EXCEPT ![y_channel] = y_axis_max]
              ELSE ch_vals
    IN  IF speed_channel \in DOMAIN v1
           /\ 0 < v1[speed_channel] /\ v1[speed_channel] < min_scan_speed
        THEN [v1 EXCEPT ![speed_channel] = min_scan_speed]
        ELSE v1

\* Check 3 on the commands of the frame for one laser fixture
ClampLaserCommands(commands, fixture) ==
    [i \in 1..Len(commands) |->
        IF commands[i].fixture_id # fixture.id THEN commands[i]
        ELSE [commands[i] EXCEPT
                 !.channel_values = ClampLaserValues(@, fixture)]]

\* Check 3 on the interlock's universe copy for one laser fixture
ClampLaserUniverse(u, fixture) ==
    LET y_channel == fixture.start_address + y_channel_offset
        speed_channel == fixture.start_address + speed_channel_offset
        u1 == IF is_valid_dmx_channel(y_channel) /\ u[y_channel] > y_axis_max
              THEN [u EXCEPT ![y_channel] = y_axis_max]
              ELSE u
    IN  IF is_valid_dmx_channel(speed_channel)
           /\ u1[speed_channel] < min_scan_speed /\ u1[speed_channel] > 0
        THEN [u1 EXCEPT ![speed_channel] = min_scan_speed]
        ELSE u1

\* Check 3: the loop over self._laser_fixtures, from fixture number k on
RECURSIVE LaserClamp(_, _, _)
LaserClamp(commands, u, k) ==
    IF k > Len(laser_fixtures) THEN [commands |-> commands, universe |-> u]
    ELSE IF ~laser_fixtures[k].enabled THEN LaserClamp(commands, u, k + 1)
    ELSE LaserClamp(ClampLaserCommands(commands, laser_fixtures[k]),
                    ClampLaserUniverse(u, laser_fixtures[k]), k + 1)

\* deque(maxlen=100).append
STROBE_DEQUE_MAXLEN == 100

DequeAppend(q, x) ==
    IF Len(q) >= STROBE_DEQUE_MAXLEN THEN Tail(q) \o <<x>> ELSE Append(q, x)

\* the 1 s window of strobe onsets, in time units
STROBE_WINDOW == 4

\* core/config.py StrobeSafetyConfig, with the number of time units in 1 s
StrobeSafetyConfig(rate_hz, duration, cooldown, second) ==
    [max_rate_hz |-> rate_hz, max_duration_s |-> duration,
     cooldown_s |-> cooldown, second |-> second]

\* self.config.strobe of the configuration the model runs under
config_strobe ==
    StrobeSafetyConfig(max_rate_hz, max_duration_s, cooldown_s, STROBE_WINDOW)

\* while timestamps and (current_time - timestamps[0]) > 1.0: popleft()
RECURSIVE PruneWindow(_, _, _)
PruneWindow(config, q, current_time) ==
    IF q # << >> /\ (current_time - Head(q)) > config.second
    THEN PruneWindow(config, Tail(q), current_time)
    ELSE q

\* cooldown suppression of one command
ZeroStrobeValues(ch_vals) ==
    [ch \in DOMAIN ch_vals |->
        IF ch \in derive_strobe_channels THEN 0 ELSE ch_vals[ch]]

\* cooldown suppression of the universe copy
ZeroStrobeUniverse(u) ==
    [i \in DOMAIN u |->
        IF i \in derive_strobe_channels /\ is_valid_dmx_channel(i) THEN 0 ELSE u[i]]

\* the rate and duration limits: TRUE when this tick enters cooldown
RateLimitExceeded(config, stamps) == Len(stamps) > config.max_rate_hz

DurationLimitExceeded(config, start, current_time) ==
    start # None /\ (current_time - start) > config.max_duration_s

\* (a cooldown that ends one unit early)
CooldownOverEarly(current_time, cd_end) == current_time + 1 >= cd_end

\* (a cooldown that lasts one tick past its end)
CooldownOverLate(current_time, cd_end) == current_time > cd_end

\* the end of a cooldown: TRUE when the cooldown is over at `current_time`
\* (a cooldown that no tick ends)
CooldownOverNever(current_time, cd_end) == FALSE
CooldownOver(current_time, cd_end) == current_time >= cd_end

\* _apply_strobe_guards under a strobe configuration: the new interlock
\* fields, commands, universe and reason
strobe_guards(config, commands, u, current_time) ==
    IF derive_strobe_channels = {}
    THEN [commands |-> commands, universe |-> u, reason |-> "None",
          stamps |-> strobe_timestamps, start |-> strobe_start_time,
          cooldown |-> in_cooldown, cd_end |-> cooldown_end,
          last_active |-> FALSE]
    ELSE
    LET command_active ==
            \E i \in 1..Len(commands) :
                \E ch \in DOMAIN commands[i].channel_values :
                    ch \in derive_strobe_channels /\ commands[i].channel_values[ch] > 0
        universe_active ==
            \E ch \in derive_strobe_channels : is_valid_dmx_channel(ch) /\ u[ch] > 0
        strobe_active == command_active \/ universe_active
        stamps1 == IF strobe_active /\ ~last_strobe_active
                   THEN DequeAppend(strobe_timestamps, current_time)
                   ELSE strobe_timestamps
        start1 == IF ~strobe_active THEN None
                  ELSE IF strobe_start_time = None THEN current_time
                  ELSE strobe_start_time
        stamps2 == PruneWindow(config, stamps1, current_time)
        rate == RateLimitExceeded(config, stamps2)
        duration == ~rate /\ DurationLimitExceeded(config, start1, current_time)
        triggered == rate \/ duration
        cooldown1 == in_cooldown \/ triggered
        cd_end1 == IF triggered THEN current_time + config.cooldown_s
                   ELSE cooldown_end
        start2 == IF triggered THEN None ELSE start1
        reason1 == IF rate THEN "strobe_rate_limit_exceeded"
                   ELSE IF duration THEN "strobe_duration_limit_exceeded"
                   ELSE "None"
        over == cooldown1 /\ CooldownOver(current_time, cd_end1)
        suppress == cooldown1 /\ ~over
    IN  [commands |-> IF suppress
                      THEN [i \in 1..Len(commands) |->
                               [commands[i] EXCEPT
                                   !.channel_values = ZeroStrobeValues(@)]]
                      ELSE commands,
         universe |-> IF suppress THEN ZeroStrobeUniverse(u) ELSE u,
         reason |-> IF over THEN "None"
                    ELSE IF suppress /\ reason1 = "None" THEN "strobe_cooldown_active"
                    ELSE reason1,
         stamps |-> IF over THEN << >> ELSE stamps2,
         start |-> start2,
         cooldown |-> suppress,
         cd_end |-> cd_end1,
         last_active |-> strobe_active]

\* _apply_strobe_guards: the new interlock fields, commands, universe and reason
apply_strobe_guards(commands, u, current_time) ==
    strobe_guards(config_strobe, commands, u, current_time)

\* scale = max(0.35, ratio) as the fraction num/den, confidence in hundredths
DegradationScale(confidence) ==
    LET threshold == min_beat_confidence
        ratio_num == PyMax(0, PyMin(threshold, confidence))
    IN  IF 100 * ratio_num >= 35 * threshold
        THEN [num |-> ratio_num, den |-> threshold]
        ELSE [num |-> 35, den |-> 100]

\* the power of two p with p < k <= 2 * p, for k >= 2 (the binade of k as a
\* float, seen from below)
RECURSIVE Pow2Below(_, _)
Pow2Below(k, p) == IF 2 * p >= k THEN p ELSE Pow2Below(k, 2 * p)

\* int(value * scale) for a byte value and a float scale.  The quotients
\* 0.15 / 0.3 and the like that are dyadic are exact floats, and so are their
\* products.  The literal 0.35 is the float 0.35 - 0.4 * 2^-54: where the
\* exact product 7 * value / 20 is an integer K, the float product is K only
\* if the shortfall 0.4 * value * 2^-54 is at most half the float spacing
\* p * 2^-52 below K, that is value <= 5 * p; otherwise it is the float
\* before K and int() gives K - 1 (180 * 0.35 = 62.99999999999999)
FloatProductInt(value, scale) ==
    LET exact == (value * scale.num) \div scale.den
        integral == (value * scale.num) % scale.den = 0
    IN  IF /\ scale = [num |-> 35, den |-> 100]
           /\ integral
           /\ exact >= 2
           /\ value > 5 * Pow2Below(exact, 1)
        THEN exact - 1
        ELSE exact

\* round(value * scale) in place of int(value * scale)
ScaleValueRounded(value, scale) ==
    PyMax(0, PyMin(255, (2 * value * scale.num + scale.den) \div (2 * scale.den)))

\* int(max(0, min(255, value * scale)))
ScaleValue(value, scale) ==
    PyMax(0, PyMin(255, FloatProductInt(value, scale)))

\* protected_channels of _apply_graceful_degradation
protected_channels == {laser_fixtures[k].start_address : k \in 1..Len(laser_fixtures)}

\* _apply_graceful_degradation on the commands and on the universe copy
apply_graceful_degradation(commands, u, confidence) ==
    LET scale == DegradationScale(confidence)
    IN  IF 1000 * scale.num >= 999 * scale.den
        THEN [commands |-> commands, universe |-> u]
        ELSE [commands |->
                 [i \in 1..Len(commands) |->
                     [commands[i] EXCEPT !.channel_values =
                         [ch \in DOMAIN @ |->
                             IF ch \in protected_channels \/ @[ch] <= 0 THEN @[ch]
                             ELSE ScaleValue(@[ch], scale)]]],
              universe |->
                 [i \in DOMAIN u |->
                     IF i >= 1 /\ i \notin protected_channels /\ u[i] > 0
                     THEN ScaleValue(u[i], scale)
                     ELSE u[i]]]

\* core/state.py SafetyState
SafetyState(ok, hb, err, laser, strobe, estop) ==
    [ok |-> ok, last_heartbeat |-> hb, error_state |-> err,
     laser_enabled |-> laser, strobe_enabled |-> strobe, emergency_stop |-> estop]

----------------------------------------------------------------------------
(* graph/nodes/dmx_output.py DMXOutputNode: the buffer and apply *)

\* A Python float: its class and, when finite, its value in halves
PyFloat(cls, halves) == [cls |-> cls, halves |-> halves]

\* float(value) of a Python int
FloatOfInt(v) == PyFloat("finite", 2 * v)

\* math.isfinite
isfinite(fval) == fval.cls = "finite"

\* (round(fval) of a finite float, a half rounded away from zero)
IntOfFloatRounded(fval) ==
    IF fval.halves >= 0 THEN (fval.halves + 1) \div 2
    ELSE -((-fval.halves + 1) \div 2)

\* int(fval) of a finite float: truncation toward zero
IntOfFloat(fval) ==
    IF fval.halves >= 0 THEN fval.halves \div 2 ELSE -((-fval.halves) \div 2)

\* fval = float(value) for every value of commands that carry Python ints
FloatCommands(commands) ==
    [i \in 1..Len(commands) |->
        [commands[i] EXCEPT !.channel_values =
            [ch \in DOMAIN @ |-> FloatOfInt(@[ch])]]]

\* bytearray.__setitem__: negative indexes count from the end, an index
\* outside the buffer raises IndexError, a value outside 0..255 ValueError
ByteArraySet(buf, i, v) ==
    IF i >= DMX_UNIVERSE_SIZE \/ i < -DMX_UNIVERSE_SIZE
    THEN [universe |-> buf, err |-> "IndexError"]
    ELSE IF v < 0 \/ v > 255
    THEN [universe |-> buf, err |-> "ValueError"]
    ELSE [universe |-> [buf EXCEPT ![IF i < 0 THEN DMX_UNIVERSE_SIZE + i ELSE i] = v],
          err |-> "None"]

\* the body of the inner loop of _apply_fixture_commands for one item
\* (without the isfinite test int(fval) raises on NaN and on an infinity)
ApplyItemUnchecked(buf, channel, fval) ==
    IF ~is_valid_dmx_channel(channel) THEN [universe |-> buf, err |-> "None"]
    ELSE IF ~isfinite(fval)
    THEN [universe |-> buf,
          err |-> IF fval.cls = "nan" THEN "ValueError" ELSE "OverflowError"]
    ELSE ByteArraySet(buf, channel, PyMax(0, PyMin(255, IntOfFloat(fval))))
\* (without the clamp bytearray.__setitem__ raises outside 0..255)
ApplyItemUnclamped(buf, channel, fval) ==
    IF ~is_valid_dmx_channel(channel) THEN [universe |-> buf, err |-> "None"]
    ELSE IF ~isfinite(fval) THEN [universe |-> buf, err |-> "None"]
    ELSE ByteArraySet(buf, channel, IntOfFloat(fval))
ApplyItem(buf, channel, fval) ==
    IF ~is_valid_dmx_channel(channel) THEN [universe |-> buf, err |-> "None"]
    ELSE IF ~isfinite(fval) THEN [universe |-> buf, err |-> "None"]
    ELSE ByteArraySet(buf, channel, PyMax(0, PyMin(255, IntOfFloat(fval))))

\* the inner loop: the items of one command, in key order
RECURSIVE ApplyItems(_, _, _)
ApplyItems(buf, channel_values, todo) ==
    IF todo = {} THEN [universe |-> buf, err |-> "None"]
    ELSE LET ch == SetMin(todo)
             one == ApplyItem(buf, ch, channel_values[ch])
         IN  IF one.err # "None" THEN one
             ELSE ApplyItems(one.universe, channel_values, todo \ {ch})

\* _apply_fixture_commands: the commands in list order
RECURSIVE apply_fixture_commands(_, _)
apply_fixture_commands(buf, commands) ==
    IF commands = << >> THEN [universe |-> buf, err |-> "None"]
    ELSE LET one == ApplyItems(buf, Head(commands).channel_values,
                               DOMAIN Head(commands).channel_values)
         IN  IF one.err # "None" THEN one
             ELSE apply_fixture_commands(one.universe, Tail(commands))

\* __call__ run without interruption: the canonical buffer it leaves, the
\* universe it stores in the frame state and the exception it raises
OutputApply(canonical, latch, double_buffer, fcommands) ==
    IF latch
    THEN [universe |-> create_universe_buffer,
          state_universe |-> create_universe_buffer, err |-> "None"]
    ELSE LET res == apply_fixture_commands(canonical, fcommands)
         IN  IF res.err = "None"
             THEN [universe |-> res.universe, state_universe |-> res.universe,
                   err |-> "None"]
             ELSE [universe |-> IF double_buffer THEN canonical ELSE res.universe,
                   state_universe |-> dmx_universe, err |-> res.err]

----------------------------------------------------------------------------
(* The frame pipeline: graph/builder.py build_photonic_graph, one tick *)

EmptyDict == [x \in {} |-> 0]

\* create_initial_state and the constructors of the nodes
InitFrame ==
    /\ stage = "upstream"
    /\ timestamp = 0
    /\ fixture_commands = << >>
    /\ dmx_universe = create_universe_buffer
    /\ safety_state = SafetyState(TRUE, 0, "None", TRUE, TRUE, FALSE)
    /\ beat_confidence = 0
    /\ strobe_budget = 0

\* SafetyConstraintInterpreter.__init__
InitInterpreterWith(max_delta_arg) ==
    /\ last_channel_values = EmptyDict
    /\ max_delta_per_frame = PyMax(1, max_delta_arg)

\* the interpreter as build_photonic_graph builds it: InterpreterNode(safety)
InitInterpreter == InitInterpreterWith(DEFAULT_MAX_DELTA_PER_FRAME)

InitInterlock ==
    /\ si_last_heartbeat = 0
    /\ strobe_timestamps = << >>
    /\ strobe_start_time = None
    /\ in_cooldown = FALSE
    /\ cooldown_end = 0
    /\ last_strobe_active = FALSE
    /\ emergency_stop = FALSE

InitOutput ==
    /\ universe = create_universe_buffer
    /\ blackout_requested = FALSE
    /\ raised = "None"
    /\ lock = "free"
    /\ out_running = FALSE
    /\ tx_thread = "None"
    /\ transport_attr = "None"
    /\ transport_state = "unopened"
    /\ frames_sent = 0
    /\ errors = 0
    /\ out_pc = "idle"
    /\ next_universe = create_universe_buffer
    /\ apply_todo = << >>
    /\ mon_pc = "idle"
    /\ tx_pc = "off"
    /\ tx_data = create_universe_buffer
    /\ wire = << >>
    /\ last_complete = create_universe_buffer

\* graph/builder.py PhotonicGraph.__init__
InitRun ==
    /\ g_running = FALSE
    /\ g_nodes = {}
    /\ g_idx = 0
    /\ run_pc = "idle"
    /\ run_exc = "None"
    /\ run_propagated = "None"
    /\ run_stopped = FALSE
    /\ stop_signalled = FALSE
    /\ frame_number = 0

\* core/exceptions.py: an exception as its type and its recoverable attribute
PhotonicError(type, recoverable) == [type |-> type, recoverable |-> recoverable]

\* no exception
NoException == PhotonicError("None", TRUE)

\* DMXConnectionError.__init__: recoverable=False
\* (an error left at the default of PhotonicError, recoverable=True)
DMXConnectionErrorDefault == PhotonicError("DMXConnectionError", TRUE)
DMXConnectionError == PhotonicError("DMXConnectionError", FALSE)

\* AudioSenseNode.__init__ and MidiSenseNode.__init__, and a caller that has
\* called nothing yet
InitLife ==
    /\ audio_running = FALSE
    /\ audio_stream = "None"
    /\ open_streams = 0
    /\ midi_running = FALSE
    /\ midi_port = "None"
    /\ open_ports = 0
    /\ life_pc = "idle"
    /\ life_exc = "None"
    /\ life_calls = 0

\* DMXConfig() with its defaults, universe = 0, artnet_net = 0 and
\* artnet_subnet = 0
DefaultArtnetConfig == [artnet_net |-> 0, artnet_subnet |-> 0, universe |-> 0]

\* no call of build_artdmx_packet or _artnet_universe_address made
NoArtnetCall(config) ==
    /\ artnet_config = config
    /\ an_pc = "idle"
    /\ an_address = 0
    /\ an_call = [universe |-> 0, dmx_data |-> << >>, sequence |-> 0,
                  physical |-> 0]
    /\ an_packet = << >>
    /\ an_raised = "None"
    /\ ub_universe = create_universe_buffer
    /\ ub_payload = << >>

\* timeout_callback = dmx_output.request_blackout in place of the choice of
\* SafetyInterlockNode.__init__
TimeoutCallbackBlackout(offers_request) == "blackout"

\* SafetyInterlockNode.__init__: timeout_callback is dmx_output.blackout,
\* or dmx_output.request_blackout when the output has a callable one
TimeoutCallback(offers_request) ==
    IF offers_request THEN "request_blackout" ELSE "blackout"

\* the watchdog of an interlock built over an output, nobody in beat() and
\* the watchdog thread not yet in a poll
InitCallback(offers_request) ==
    /\ out_offers_request = offers_request
    /\ wd_on_timeout = TimeoutCallback(offers_request)
    /\ wd_elapsed = 0
    /\ beat_pc = "idle"
    /\ wd_fired_since_beat = 0

\* the state outside the frame pipeline, the watchdog and run_loop; the
\* output is a DMXOutputNode, which has request_blackout
InitExt ==
    /\ InitLife
    /\ start_exc = NoException
    /\ NoArtnetCall(DefaultArtnetConfig)
    /\ InitCallback(TRUE)

\* the floors of __init__: max(timeout_s, 0.05) and max(check_interval_s, 0.01)
WD_TIMEOUT_FLOOR == 5
WD_INTERVAL_FLOOR == 1

\* the constructor arguments the model draws from
WdTimeouts == {2, 6}
WdIntervals == {0, 2}

\* HeartbeatWatchdog.__init__
InitWatchdog ==
    /\ wd_now = 0
    /\ \E timeout_s \in WdTimeouts : wd_timeout_s = PyMax(timeout_s, WD_TIMEOUT_FLOOR)
    /\ \E check_interval_s \in WdIntervals :
           wd_check_interval_s = PyMax(check_interval_s, WD_INTERVAL_FLOOR)
    /\ wd_last_heartbeat = 0
    /\ wd_timeout_triggered = FALSE
    /\ wd_running = FALSE
    /\ wd_pc = "none"
    /\ wd_wake = 0
    /\ wd_started_at = 0
    /\ wd_callbacks = 0

\* the watchdog as the pipeline specifications leave it: built, not started
IdleWatchdog ==
    /\ wd_now = 0
    /\ wd_timeout_s = PyMax(heartbeat_timeout_s, WD_TIMEOUT_FLOOR)
    /\ wd_check_interval_s = WD_INTERVAL_FLOOR
    /\ wd_last_heartbeat = 0
    /\ wd_timeout_triggered = FALSE
    /\ wd_running = FALSE
    /\ wd_pc = "none"
    /\ wd_wake = 0
    /\ wd_started_at = 0
    /\ wd_callbacks = 0

\* the sequences of at most MaxCmds commands drawn from a menu
CommandLists(menu) ==
    UNION {[1..n -> menu] : n \in 0..MaxCmds}

\* graph/builder.py build_photonic_graph: the entry point and the edges
ENTRY_POINT == "audio_sense"
END == "END"
\* (edges that take the commands from the interpreter to the output)
GraphEdgesPastInterlock ==
    { <<"audio_sense", "feature_extract">>, <<"feature_extract", "beat_track">>,
      <<"beat_track", "structure_detect">>, <<"structure_detect", "midi_sense">>,
      <<"midi_sense", "cv_sense">>, <<"cv_sense", "fusion">>,
      <<"fusion", "director_intent">>, <<"director_intent", "scene_select">>,
      <<"scene_select", "laser_control">>,
      <<"laser_control", "moving_head_control">>,
      <<"moving_head_control", "panel_control">>,
      <<"panel_control", "interpreter">>,
      <<"interpreter", "dmx_output">>,
      <<"safety_interlock", "dmx_output">>,
      <<"dmx_output", END>> }
GraphEdges ==
    { <<"audio_sense", "feature_extract">>, <<"feature_extract", "beat_track">>,
      <<"beat_track", "structure_detect">>, <<"structure_detect", "midi_sense">>,
      <<"midi_sense", "cv_sense">>, <<"cv_sense", "fusion">>,
      <<"fusion", "director_intent">>, <<"director_intent", "scene_select">>,
      <<"scene_select", "laser_control">>,
      <<"laser_control", "moving_head_control">>,
      <<"moving_head_control", "panel_control">>,
      <<"panel_control", "interpreter">>,
      <<"interpreter", "safety_interlock">>,
      <<"safety_interlock", "dmx_output">>,
      <<"dmx_output", END>> }

\* the node the compiled graph runs after node n: every node of the graph
\* has one outgoing edge
NextNode(n) == CHOOSE m \in {e[2] : e \in GraphEdges} : <<n, m>> \in GraphEdges

\* the stages before the interpreter (audio_sense .. panel_control): they stamp
\* the frame and append this tick's fixture commands; `at` is where the
\* pipeline stands when they run
UpstreamAt(at, lists, dts, confidences, budgets, horizon) ==
    /\ stage = at
    /\ \E dt \in dts :
         /\ timestamp + dt <= horizon
         /\ timestamp' = timestamp + dt
    /\ fixture_commands' \in lists
    /\ beat_confidence' \in confidences
    /\ strobe_budget' \in budgets
    /\ stage' = NextNode("panel_control")
    /\ UNCHANGED <<dmx_universe, safety_state, interpVars, silVars, outVars,
                   ioVars, wdVars, runVars, extVars>>

\* the stages before the interpreter run as one step of a tick
UpstreamLists(lists, dts, confidences, budgets, horizon) ==
    UpstreamAt("upstream", lists, dts, confidences, budgets, horizon)

\* the stages before the interpreter, their commands drawn from a menu
Upstream(menu, dts, confidences, budgets, horizon) ==
    UpstreamLists(CommandLists(menu), dts, confidences, budgets, horizon)

\* graph/nodes/interpreter.py InterpreterNode.__call__
InterpreterNode ==
    /\ stage = "interpreter"
    /\ LET res == interpret(fixture_commands, strobe_budget, last_channel_values)
       IN  /\ fixture_commands' = res.commands
           /\ last_channel_values' = res.last
    /\ stage' = NextNode("interpreter")
    /\ UNCHANGED <<timestamp, dmx_universe, safety_state, beat_confidence,
                   strobe_budget, silVars, outVars, ioVars, wdVars, runVars, extVars>>

\* (a heartbeat test against the start of the run, not the last heartbeat)
HeartbeatTimedOutOfStart(current_time, last_heartbeat) ==
    current_time > heartbeat_timeout_s

\* Check 1: the heartbeat test of SafetyInterlockNode.__call__
HeartbeatTimedOut(current_time, last_heartbeat) ==
    (current_time - last_heartbeat) > heartbeat_timeout_s

\* error_state with the heartbeat timeout kept when the emergency stop is
\* active as well
InterlockErrorHeartbeatFirst(estop, hb_timeout) ==
    IF hb_timeout THEN "heartbeat_timeout"
    ELSE IF estop THEN "emergency_stop_active"
    ELSE "None"

\* (an error_state that only the emergency stop sets)
InterlockErrorStopOnly(estop, hb_timeout) ==
    IF estop THEN "emergency_stop_active" ELSE "None"

\* error_state after Check 1 and Check 2: the emergency stop overwrites the
\* heartbeat timeout
InterlockError(estop, hb_timeout) ==
    IF estop THEN "emergency_stop_active"
    ELSE IF hb_timeout THEN "heartbeat_timeout"
    ELSE "None"

\* (universe = state["dmx_universe"], were that the output's buffer itself:
\* the interlock's writes land in the buffer of the owner)
BufferAfterWritesToAlias(owner, written) == written

\* universe = bytearray(state["dmx_universe"]): the interlock writes into a
\* new buffer, and the buffer of the owner stays as it is
BufferAfterWritesToCopy(owner, written) == owner

\* SafetyInterlockNode.__call__ under a strobe configuration
SafetyInterlockCall(config) ==
    /\ stage = "safety_interlock"
    /\ LET current_time == timestamp
           hb_timeout == HeartbeatTimedOut(current_time, si_last_heartbeat)
           u1 == IF hb_timeout THEN emergency_blackout ELSE dmx_universe
           u2 == IF emergency_stop THEN emergency_blackout ELSE u1
           err1 == InterlockError(emergency_stop, hb_timeout)
           lc == LaserClamp(fixture_commands, u2, 1)
           sg == strobe_guards(config, lc.commands, lc.universe, current_time)
           err2 == IF sg.cooldown /\ err1 = "None"
                   THEN (IF sg.reason # "None" THEN sg.reason
                         ELSE "strobe_cooldown_active")
                   ELSE err1
           gd == IF beat_confidence < min_beat_confidence /\ graceful_degradation
                 THEN apply_graceful_degradation(sg.commands, sg.universe,
                                                 beat_confidence)
                 ELSE [commands |-> sg.commands, universe |-> sg.universe]
       IN  /\ si_last_heartbeat' = current_time
           /\ strobe_timestamps' = sg.stamps
           /\ strobe_start_time' = sg.start
           /\ in_cooldown' = sg.cooldown
           /\ cooldown_end' = sg.cd_end
           /\ last_strobe_active' = sg.last_active
           /\ fixture_commands' = gd.commands
           /\ dmx_universe' = gd.universe
           /\ safety_state' =
                  SafetyState(~hb_timeout /\ ~emergency_stop /\ ~sg.cooldown,
                              current_time, err2, ~emergency_stop, ~sg.cooldown,
                              emergency_stop)
           /\ universe' = BufferAfterWritesToCopy(universe, gd.universe)
    \* self._heartbeat_watchdog.beat()
    /\ wd_last_heartbeat' = wd_now
    /\ wd_timeout_triggered' = FALSE
    /\ stage' = NextNode("safety_interlock")
    /\ UNCHANGED <<timestamp, beat_confidence, strobe_budget, emergency_stop,
                   interpVars, blackout_requested, dmx_double_buffer, raised,
                   ioVars, wd_now, wd_timeout_s,
                   wd_check_interval_s, wd_running, wd_pc, wd_wake,
                   wd_started_at, wd_callbacks, runVars, extVars>>

\* SafetyInterlockNode.__call__ under the configuration of the model
SafetyInterlockNode == SafetyInterlockCall(config_strobe)

\* DMXOutputNode.__call__ as the pipeline thread runs it within a tick
DMXOutputNode ==
    /\ stage = "dmx_output"
    /\ LET res == OutputApply(universe, blackout_requested, dmx_double_buffer,
                              FloatCommands(fixture_commands))
       IN  /\ universe' = res.universe
           /\ dmx_universe' = res.state_universe
           /\ raised' = res.err
           /\ fixture_commands' = IF res.err = "None" THEN << >> ELSE fixture_commands
           /\ stage' = IF res.err = "None" THEN "upstream" ELSE "raised"
           /\ last_complete' = res.universe
    /\ UNCHANGED <<timestamp, safety_state, beat_confidence, strobe_budget,
                   blackout_requested, dmx_double_buffer, interpVars, silVars,
                   interface_type, lock, out_running, tx_thread, transport_attr,
                   transport_state, frames_sent, errors, out_pc, next_universe,
                   apply_todo, mon_pc, tx_pc, tx_data, wire, wdVars, runVars, extVars>>

\* SafetyInterlockNode.trigger_emergency_stop
trigger_emergency_stop ==
    /\ emergency_stop' = TRUE
    /\ UNCHANGED <<frameVars, interpVars, outVars, ioVars, wdVars, runVars, extVars,
                   si_last_heartbeat,
                   strobe_timestamps, strobe_start_time, in_cooldown,
                   cooldown_end, last_strobe_active>>

\* SafetyInterlockNode.reset_emergency_stop
reset_emergency_stop ==
    /\ emergency_stop' = FALSE
    /\ UNCHANGED <<frameVars, interpVars, outVars, ioVars, wdVars, runVars, extVars,
                   si_last_heartbeat,
                   strobe_timestamps, strobe_start_time, in_cooldown,
                   cooldown_end, last_strobe_active>>

\* DMXOutputNode.request_blackout
request_blackout ==
    /\ blackout_requested' = TRUE
    /\ UNCHANGED <<frameVars, interpVars, silVars, universe, dmx_double_buffer,
                   raised, ioVars, wdVars, runVars, extVars>>

----------------------------------------------------------------------------
(* Spec: ticks of the pipeline with laser commands, emergency stop and     *)
(* stalls of the loop                                                      *)

\* commands the fixture-control stages hand to the interpreter
LaserMenu ==
    { FixtureCommand("laser-1", "laser", (10 :> 200) @@ (13 :> 255) @@ (14 :> 5)),
      FixtureCommand("panel-1", "panel", (13 :> 255)) }

TickSteps == {1, 5}
Confidences == {100, 10, 15}

Init ==
    /\ InitFrame /\ InitInterpreter /\ InitInterlock /\ InitOutput
    /\ dmx_double_buffer = TRUE
    /\ interface_type = "artnet"
    /\ IdleWatchdog
    /\ InitRun
    /\ InitExt

Next ==
    \/ Upstream(LaserMenu, TickSteps, Confidences, {10}, MaxTime)
    \/ InterpreterNode
    \/ SafetyInterlockNode
    \/ DMXOutputNode
    \/ trigger_emergency_stop
    \/ reset_emergency_stop

Spec == Init /\ [][Next]_vars

----------------------------------------------------------------------------
(* SpecStrobe: ticks of the pipeline with strobe commands *)

StrobeMenu ==
    { FixtureCommand("mover-1", "moving_head", (20 :> 0) @@ (26 :> 30)),
      FixtureCommand("mover-1", "moving_head", (20 :> 0) @@ (26 :> 0)),
      FixtureCommand("panel-1", "panel", (40 :> 0) @@ (44 :> 30)) }

StrobeTickSteps == {1, 2}

NextStrobe ==
    \/ Upstream(StrobeMenu, StrobeTickSteps, {100}, {10}, StrobeMaxTime)
    \/ InterpreterNode
    \/ SafetyInterlockNode
    \/ DMXOutputNode

SpecStrobe == Init /\ [][NextStrobe]_vars

----------------------------------------------------------------------------
(* Claims about the pipeline *)

\* the y-axis channel of a laser fixture
YChannel(fixture) == fixture.start_address + y_channel_offset

\* C1: for every enabled laser fixture the value committed to the canonical
\* universe on its y-axis channel is at most y_axis_max, whatever commands
\* the upstream stages produced.
C1_YAxisCommittedWithinMax ==
    \A k \in 1..Len(laser_fixtures) :
        (laser_fixtures[k].enabled /\ is_valid_dmx_channel(YChannel(laser_fixtures[k])))
            => universe[YChannel(laser_fixtures[k])] <= y_axis_max

\* the interlock forced a blackout in the tick that has just ended
ForcedBlackoutTick ==
    /\ stage = "upstream"
    /\ safety_state.error_state \in {"emergency_stop_active", "heartbeat_timeout"}

\* C2: at the end of a tick in which the interlock forced a blackout
\* (emergency stop latched or heartbeat timeout) every channel of the
\* committed universe is 0, in the canonical buffer and in the frame state.
C2_ForcedBlackoutCommitted ==
    ForcedBlackoutTick =>
        \A c \in DMX_CHANNEL_MIN..DMX_CHANNEL_MAX :
            universe[c] = 0 /\ dmx_universe[c] = 0

\* a known strobe channel is commanded on in the commands entering a stage
CommandStrobeActive(commands) ==
    \E i \in 1..Len(commands) :
        \E ch \in DOMAIN commands[i].channel_values :
            ch \in derive_strobe_channels /\ commands[i].channel_values[ch] > 0

\* every known strobe channel is 0 in the commands and in the universe
StrobeChannelsOff(commands, u) ==
    /\ \A i \in 1..Len(commands) :
          \A ch \in DOMAIN commands[i].channel_values :
              ch \in derive_strobe_channels => commands[i].channel_values[ch] = 0
    /\ \A ch \in derive_strobe_channels : is_valid_dmx_channel(ch) => u[ch] = 0

\* C5: an interlock tick on which a strobe has been held active for longer
\* than max_duration_s enters cooldown; a cooldown lasts until cooldown_s has
\* elapsed since its latest trigger; and while in cooldown every known strobe
\* channel is 0 in the commands and in the universe the interlock returns and
\* safety_state.strobe_enabled is False.
C5_StrobeDurationCooldown ==
    [][ (stage = "safety_interlock" /\ stage' = "dmx_output") =>
          /\ ( /\ strobe_start_time # None
               /\ CommandStrobeActive(fixture_commands)
               /\ timestamp - strobe_start_time > max_duration_s )
                 => in_cooldown'
          /\ (in_cooldown /\ timestamp < cooldown_end) => in_cooldown'
          /\ in_cooldown' =>
                 /\ StrobeChannelsOff(fixture_commands', dmx_universe')
                 /\ ~safety_state'.strobe_enabled
      ]_vars

\* the triggering tick of a duration cooldown, its strobe command zeroed
C5_Witness ==
    /\ stage = "dmx_output"
    /\ in_cooldown
    /\ safety_state.error_state = "strobe_duration_limit_exceeded"
    /\ \E i \in 1..Len(fixture_commands) :
          26 \in DOMAIN fixture_commands[i].channel_values

----------------------------------------------------------------------------
(* graph/nodes/dmx_output.py DMXOutputNode: the pipeline thread, the       *)
(* monitor thread and the transmit thread, step by step                    *)

\* the variables of the pipeline that the output does not touch
tickVars == <<stage, timestamp, safety_state, beat_confidence, strobe_budget,
              interpVars, silVars, wdVars, runVars, extVars>>

\* universe[0:512] in place of universe[1:513]: the start code is kept
extract_channel_payload_from_start(u) ==
    [i \in 0..(DMX_CHANNEL_COUNT - 1) |-> u[i]]

\* dmx/universe.py extract_channel_payload: universe[1:513], indexed from 0
extract_channel_payload(u) ==
    [i \in 0..(DMX_CHANNEL_COUNT - 1) |-> u[i + DMX_CHANNEL_MIN]]

\* the items of one channel_values dict in the order the loop visits them
RECURSIVE DictItems(_, _)
DictItems(channel_values, todo) ==
    IF todo = {} THEN << >>
    ELSE LET ch == SetMin(todo)
         IN  << <<ch, channel_values[ch]>> >>
                 \o DictItems(channel_values, todo \ {ch})

\* the items the two loops of _apply_fixture_commands visit, in order
RECURSIVE CommandItems(_)
CommandItems(commands) ==
    IF commands = << >> THEN << >>
    ELSE DictItems(Head(commands).channel_values,
                   DOMAIN Head(commands).channel_values)
             \o CommandItems(Tail(commands))

\* `with self._lock:` can be entered
\* (entered without waiting for the holder)
LockFreeIgnored == TRUE
LockFree == lock = "free"

\* the pipeline reaches the output stage with this tick's commands
Call(lists) ==
    /\ out_pc = "idle"
    /\ fixture_commands' \in lists
    /\ out_pc' = "call"
    /\ UNCHANGED <<tickVars, dmx_universe, outVars, interface_type, lock,
                   out_running, tx_thread, transport_attr, transport_state,
                   frames_sent, errors, next_universe, apply_todo, mon_pc,
                   tx_pc, tx_data, wire, last_complete>>

\* __call__ up to the end of its first `with self._lock:` block
CallBegin ==
    /\ out_pc = "call"
    /\ LockFree
    /\ IF blackout_requested
       THEN /\ universe' = create_universe_buffer
            /\ dmx_universe' = create_universe_buffer
            /\ last_complete' = create_universe_buffer
            /\ fixture_commands' = << >>
            /\ out_pc' = "idle"
            /\ UNCHANGED <<next_universe, apply_todo, lock, raised>>
       ELSE IF dmx_double_buffer
       THEN LET res == apply_fixture_commands(universe, fixture_commands)
            IN  /\ next_universe' = res.universe
                /\ raised' = res.err
                /\ out_pc' = IF res.err = "None" THEN "swap" ELSE "idle"
                /\ UNCHANGED <<universe, dmx_universe, last_complete,
                               fixture_commands, apply_todo, lock>>
       ELSE /\ lock' = "pipeline"
            /\ apply_todo' = CommandItems(fixture_commands)
            /\ out_pc' = "apply"
            /\ UNCHANGED <<universe, dmx_universe, last_complete,
                           fixture_commands, next_universe, raised>>
    /\ UNCHANGED <<tickVars, blackout_requested, dmx_double_buffer,
                   interface_type, out_running, tx_thread, transport_attr,
                   transport_state, frames_sent, errors, mon_pc, tx_pc,
                   tx_data, wire>>

\* __call__ with double buffering: the second `with self._lock:` block and
\* the clearing of the commands
CallSwap ==
    /\ out_pc = "swap"
    /\ LockFree
    /\ universe' = next_universe
    /\ dmx_universe' = next_universe
    /\ last_complete' = next_universe
    /\ fixture_commands' = << >>
    /\ next_universe' = create_universe_buffer   \* the local goes out of scope
    /\ out_pc' = "idle"
    /\ UNCHANGED <<tickVars, blackout_requested, dmx_double_buffer, raised,
                   interface_type, lock, out_running, tx_thread,
                   transport_attr, transport_state, frames_sent, errors,
                   apply_todo, mon_pc, tx_pc, tx_data, wire>>

\* __call__ without double buffering: one item of _apply_fixture_commands
\* written into the canonical buffer, the lock held
CallApplyItem ==
    /\ out_pc = "apply"
    /\ apply_todo # << >>
    /\ LET res == ApplyItem(universe, Head(apply_todo)[1], Head(apply_todo)[2])
       IN  /\ universe' = res.universe
           /\ raised' = res.err
           /\ IF res.err = "None"
              THEN /\ apply_todo' = Tail(apply_todo)
                   /\ UNCHANGED <<lock, out_pc>>
              ELSE /\ apply_todo' = << >>
                   /\ lock' = "free"
                   /\ out_pc' = "idle"
    /\ UNCHANGED <<tickVars, fixture_commands, dmx_universe, blackout_requested,
                   dmx_double_buffer, interface_type, out_running, tx_thread,
                   transport_attr, transport_state, frames_sent, errors,
                   next_universe, mon_pc, tx_pc, tx_data, wire, last_complete>>

\* __call__ without double buffering: the end of the `with self._lock:` block
\* and the clearing of the commands
CallApplyEnd ==
    /\ out_pc = "apply"
    /\ apply_todo = << >>
    /\ dmx_universe' = universe
    /\ last_complete' = universe
    /\ lock' = "free"
    /\ fixture_commands' = << >>
    /\ out_pc' = "idle"
    /\ UNCHANGED <<tickVars, outVars, interface_type, out_running, tx_thread,
                   transport_attr, transport_state, frames_sent, errors,
                   next_universe, apply_todo, mon_pc, tx_pc, tx_data, wire>>

\* set_channel up to the end of its `with self._lock:` block, called by the
\* thread that owns the output between two ticks
set_channel(channel, value) ==
    /\ out_pc = "idle"
    /\ IF is_valid_dmx_channel(channel)
       THEN /\ LockFree
            /\ LET res == ByteArraySet(universe, channel,
                                       PyMax(0, PyMin(255, value)))
               IN  /\ universe' = res.universe
                   /\ last_complete' = res.universe
                   /\ raised' = res.err
            /\ out_pc' = "set_channel_clear"
       ELSE UNCHANGED <<universe, last_complete, raised, out_pc>>
    /\ UNCHANGED <<tickVars, fixture_commands, dmx_universe, blackout_requested,
                   dmx_double_buffer, interface_type, lock, out_running,
                   tx_thread, transport_attr, transport_state, frames_sent,
                   errors, next_universe, apply_todo, mon_pc, tx_pc, tx_data,
                   wire>>

\* set_channel: self._blackout_requested.clear()
set_channel_clear ==
    /\ out_pc = "set_channel_clear"
    /\ blackout_requested' = FALSE
    /\ out_pc' = "idle"
    /\ UNCHANGED <<tickVars, fixture_commands, dmx_universe, universe,
                   dmx_double_buffer, raised, interface_type, lock, out_running,
                   tx_thread, transport_attr, transport_state, frames_sent,
                   errors, next_universe, apply_todo, mon_pc, tx_pc, tx_data,
                   wire, last_complete>>

\* blackout(): its `with self._lock:` block, run by a monitor thread
blackout ==
    /\ mon_pc = "idle"
    /\ LockFree
    /\ universe' = create_universe_buffer
    /\ last_complete' = create_universe_buffer
    /\ mon_pc' = "blackout_set"
    /\ UNCHANGED <<tickVars, fixture_commands, dmx_universe, blackout_requested,
                   dmx_double_buffer, raised, interface_type, lock, out_running,
                   tx_thread, transport_attr, transport_state, frames_sent,
                   errors, out_pc, next_universe, apply_todo, tx_pc, tx_data,
                   wire>>

\* blackout(): self._blackout_requested.set()
blackout_set ==
    /\ mon_pc = "blackout_set"
    /\ blackout_requested' = TRUE
    /\ mon_pc' = "idle"
    /\ UNCHANGED <<tickVars, fixture_commands, dmx_universe, universe,
                   dmx_double_buffer, raised, interface_type, lock, out_running,
                   tx_thread, transport_attr, transport_state, frames_sent,
                   errors, out_pc, next_universe, apply_todo, tx_pc, tx_data,
                   wire, last_complete>>

\* request_blackout() as a monitor thread calls it
MonitorRequestBlackout ==
    /\ mon_pc = "idle"
    /\ ~blackout_requested
    /\ request_blackout

\* start() past its early returns. When the transport opens, the transmit
\* thread is created. When it does not, the exception is wrapped in a
\* DMXConnectionError: an ArtNetTransmitter is left in self._artnet with no
\* socket, self._serial is left as it was.
StartTransport(opens) ==
    IF opens
    THEN /\ transport_attr' = "object"
         /\ transport_state' = "open"
         /\ out_running' = TRUE
         /\ tx_thread' = "thread"
         /\ tx_pc' = "loop"
         /\ start_exc' = NoException
    ELSE /\ IF interface_type = "artnet"
            THEN /\ transport_attr' = "object"
                 /\ transport_state' = "unopened"
            ELSE UNCHANGED <<transport_attr, transport_state>>
         /\ start_exc' = DMXConnectionError
         /\ UNCHANGED <<out_running, tx_thread, tx_pc>>

\* start() called while the output is not running, the transport opening.
\* The model keeps one transmit thread: start() waits for an earlier one to
\* end.
start ==
    /\ out_pc = "idle"
    /\ ~out_running
    /\ tx_pc \in {"off", "dead"}
    /\ StartTransport(TRUE)
    /\ UNCHANGED <<stage, timestamp, safety_state, beat_confidence,
                   strobe_budget, interpVars, silVars, wdVars, runVars,
                   lifeVars, auxVars, fixture_commands, dmx_universe, outVars,
                   interface_type, lock, frames_sent, errors, out_pc,
                   next_universe, apply_todo, mon_pc, tx_data, wire,
                   last_complete>>

\* start() called while the output is not running, the transport failing to
\* open
start_raises ==
    /\ out_pc = "idle"
    /\ ~out_running
    /\ tx_pc \in {"off", "dead"}
    /\ StartTransport(FALSE)
    /\ UNCHANGED <<stage, timestamp, safety_state, beat_confidence,
                   strobe_budget, interpVars, silVars, wdVars, runVars,
                   lifeVars, auxVars, fixture_commands, dmx_universe, outVars,
                   interface_type, lock, frames_sent, errors, out_pc,
                   next_universe, apply_todo, mon_pc, tx_data, wire,
                   last_complete>>

\* stop(): self._running = False
StopBegin ==
    /\ out_pc = "idle"
    /\ out_running' = FALSE
    /\ out_pc' = "stop_join"
    /\ UNCHANGED <<tickVars, fixture_commands, dmx_universe, outVars,
                   interface_type, lock, tx_thread, transport_attr,
                   transport_state, frames_sent, errors, next_universe,
                   apply_todo, mon_pc, tx_pc, tx_data, wire, last_complete>>

\* stop(): self._thread.join(timeout=1.0) returning because the thread ended,
\* or no thread to join
StopJoined ==
    /\ out_pc = "stop_join"
    /\ tx_thread = "thread" => tx_pc = "dead"
    /\ tx_thread' = "None"
    /\ out_pc' = "stop_blackout"
    /\ UNCHANGED <<tickVars, fixture_commands, dmx_universe, outVars,
                   interface_type, lock, out_running, transport_attr,
                   transport_state, frames_sent, errors, next_universe,
                   apply_todo, mon_pc, tx_pc, tx_data, wire, last_complete>>

\* stop(): self._thread.join(timeout=1.0) returning on its timeout, the
\* thread still alive
StopJoinTimeout ==
    /\ out_pc = "stop_join"
    /\ tx_thread = "thread"
    /\ tx_pc # "dead"
    /\ tx_thread' = "None"
    /\ out_pc' = "stop_blackout"
    /\ UNCHANGED <<tickVars, fixture_commands, dmx_universe, outVars,
                   interface_type, lock, out_running, transport_attr,
                   transport_state, frames_sent, errors, next_universe,
                   apply_todo, mon_pc, tx_pc, tx_data, wire, last_complete>>

\* the blackout frame stop() writes: bytes(512) to Art-Net, a whole universe
\* buffer to the serial port
StopFrame ==
    IF interface_type = "artnet"
    THEN extract_channel_payload(create_universe_buffer)
    ELSE create_universe_buffer

\* stop(): the direct blackout frame, its exceptions swallowed
StopBlackout ==
    /\ out_pc = "stop_blackout"
    /\ IF transport_attr = "object"
       THEN /\ wire' = IF transport_state = "open" THEN <<StopFrame>> ELSE wire
            /\ out_pc' = "stop_close"
       ELSE /\ out_pc' = "idle"
            /\ UNCHANGED wire
    /\ UNCHANGED <<tickVars, fixture_commands, dmx_universe, outVars,
                   interface_type, lock, out_running, tx_thread, transport_attr,
                   transport_state, frames_sent, errors, next_universe,
                   apply_todo, mon_pc, tx_pc, tx_data, last_complete>>

\* stop(): close() of the transport and the attribute set to None
StopClose ==
    /\ out_pc = "stop_close"
    /\ transport_state' = "closed"
    /\ transport_attr' = "None"
    /\ out_pc' = "idle"
    /\ UNCHANGED <<tickVars, fixture_commands, dmx_universe, outVars,
                   interface_type, lock, out_running, tx_thread, frames_sent,
                   errors, next_universe, apply_todo, mon_pc, tx_pc, tx_data,
                   wire, last_complete>>

\* _transmit_loop: the test of `while self._running`
TxLoop ==
    /\ tx_pc = "loop"
    /\ out_running => (frames_sent < MaxFrames /\ errors <= MaxErrors)
    /\ tx_pc' = IF out_running THEN "frame" ELSE "dead"
    /\ UNCHANGED <<tickVars, fixture_commands, dmx_universe, outVars,
                   interface_type, lock, out_running, tx_thread, transport_attr,
                   transport_state, frames_sent, errors, out_pc, next_universe,
                   apply_todo, mon_pc, tx_data, wire, last_complete>>

\* _send_frame: the test of the blackout latch
\* (a frame built from the canonical buffer whatever the latch)
TxFrameUnlatched ==
    /\ tx_pc = "frame"
    /\ tx_pc' = "read"
    /\ UNCHANGED <<tickVars, fixture_commands, dmx_universe, outVars,
                   interface_type, lock, out_running, tx_thread, transport_attr,
                   transport_state, frames_sent, errors, out_pc, next_universe,
                   apply_todo, mon_pc, tx_data, wire, last_complete>>
TxFrame ==
    /\ tx_pc = "frame"
    /\ IF blackout_requested
       THEN /\ tx_data' = create_universe_buffer
            /\ tx_pc' = "check"
       ELSE /\ tx_pc' = "read"
            /\ UNCHANGED tx_data
    /\ UNCHANGED <<tickVars, fixture_commands, dmx_universe, outVars,
                   interface_type, lock, out_running, tx_thread, transport_attr,
                   transport_state, frames_sent, errors, out_pc, next_universe,
                   apply_todo, mon_pc, wire, last_complete>>

\* _send_frame: data = bytes(self._universe) under the lock
TxRead ==
    /\ tx_pc = "read"
    /\ LockFree
    /\ tx_data' = universe
    /\ tx_pc' = "check"
    /\ UNCHANGED <<tickVars, fixture_commands, dmx_universe, outVars,
                   interface_type, lock, out_running, tx_thread, transport_attr,
                   transport_state, frames_sent, errors, out_pc, next_universe,
                   apply_todo, mon_pc, wire, last_complete>>

\* _send_frame: `if not self._artnet: return` / `if not self._serial: return`
TxCheck ==
    /\ tx_pc = "check"
    /\ IF transport_attr = "None"
       THEN /\ frames_sent' = frames_sent + 1
            /\ tx_data' = create_universe_buffer   \* the local goes out of scope
            /\ tx_pc' = "loop"
       ELSE /\ tx_pc' = "write"
            /\ UNCHANGED <<frames_sent, tx_data>>
    /\ UNCHANGED <<tickVars, fixture_commands, dmx_universe, outVars,
                   interface_type, lock, out_running, tx_thread, transport_attr,
                   transport_state, errors, out_pc, next_universe, apply_todo,
                   mon_pc, wire, last_complete>>

\* what _send_frame hands to the transport
TxPayload(data) ==
    IF interface_type = "artnet" THEN extract_channel_payload(data) ELSE data

\* _send_frame: the write to the transport; on a transport that stop() has
\* closed or detached it raises and _transmit_loop counts the error
TxWrite ==
    /\ tx_pc = "write"
    /\ IF transport_attr = "object" /\ transport_state = "open"
       THEN /\ wire' = <<TxPayload(tx_data)>>
            /\ frames_sent' = frames_sent + 1
            /\ UNCHANGED errors
       ELSE /\ errors' = errors + 1
            /\ UNCHANGED <<wire, frames_sent>>
    /\ tx_data' = create_universe_buffer   \* the local goes out of scope
    /\ tx_pc' = "loop"
    /\ UNCHANGED <<tickVars, fixture_commands, dmx_universe, outVars,
                   interface_type, lock, out_running, tx_thread, transport_attr,
                   transport_state, out_pc, next_universe, apply_todo, mon_pc,
                   last_complete>>

\* _send_frame raising on an open transport (send_break, write or sendto
\* fails): `except Exception` of _transmit_loop counts the error
\* (an exception that is not caught and ends the thread)
TxWriteRaisesUncaught ==
    /\ tx_pc = "write"
    /\ errors < MaxErrors
    /\ transport_attr = "object" /\ transport_state = "open"
    /\ tx_data' = create_universe_buffer   \* the local goes out of scope
    /\ tx_pc' = "dead"
    /\ UNCHANGED <<tickVars, fixture_commands, dmx_universe, outVars,
                   interface_type, lock, out_running, tx_thread, transport_attr,
                   transport_state, frames_sent, errors, out_pc, next_universe,
                   apply_todo, mon_pc, wire, last_complete>>
TxWriteRaises ==
    /\ tx_pc = "write"
    /\ errors < MaxErrors
    /\ transport_attr = "object" /\ transport_state = "open"
    /\ errors' = errors + 1
    /\ tx_data' = create_universe_buffer   \* the local goes out of scope
    /\ tx_pc' = "loop"
    /\ UNCHANGED <<tickVars, fixture_commands, dmx_universe, outVars,
                   interface_type, lock, out_running, tx_thread, transport_attr,
                   transport_state, frames_sent, out_pc, next_universe,
                   apply_todo, mon_pc, wire, last_complete>>

----------------------------------------------------------------------------
(* SpecOut: the output driven by ticks, direct channel writes, blackouts,  *)
(* start and stop, with its transmit thread                                *)

NaN == PyFloat("nan", 0)
PosInf == PyFloat("inf", 0)
NegInf == PyFloat("-inf", 0)

\* commands reaching the output: finite, fractional, negative, oversized and
\* non-finite values on valid channels, and keys outside 1..512
OutCommandA ==
    FixtureCommand("mover-1", "moving_head",
                   (-1 :> FloatOfInt(200)) @@ (0 :> FloatOfInt(200))
                       @@ (1 :> NaN) @@ (2 :> PyFloat("finite", 15))
                       @@ (3 :> PosInf) @@ (513 :> FloatOfInt(200)))
OutCommandB ==
    FixtureCommand("panel-1", "panel",
                   (1 :> FloatOfInt(300)) @@ (2 :> FloatOfInt(300))
                       @@ (512 :> NegInf))
OutCommandLists ==
    { << >>, <<OutCommandA>>, <<OutCommandB>>, <<OutCommandB, OutCommandA>> }

\* direct writes: a valid channel, the start code index, beyond the universe
\* and a negative index; values inside and outside a byte
SetChannelArgs == {<<1, 999>>, <<0, 5>>, <<513, 5>>, <<-1, 5>>}

InitOut ==
    /\ InitFrame /\ InitInterpreter /\ InitInterlock /\ InitOutput
    /\ dmx_double_buffer \in BOOLEAN
    /\ interface_type = "enttec_open"
    /\ IdleWatchdog
    /\ InitRun
    /\ InitExt

NextOut ==
    \/ Call(OutCommandLists)
    \/ CallBegin
    \/ CallSwap
    \/ CallApplyItem
    \/ CallApplyEnd
    \/ \E a \in SetChannelArgs : set_channel(a[1], a[2])
    \/ set_channel_clear
    \/ blackout
    \/ blackout_set
    \/ MonitorRequestBlackout
    \/ start
    \/ TxLoop
    \/ TxFrame
    \/ TxRead
    \/ TxCheck
    \/ TxWrite

SpecOut == InitOut /\ [][NextOut]_vars

----------------------------------------------------------------------------
(* SpecStop: start, ticks and stop of the output with its transmit thread *)

StopMenu ==
    { FixtureCommand("panel-1", "panel", (1 :> FloatOfInt(300))) }

InitStop ==
    /\ InitFrame /\ InitInterpreter /\ InitInterlock /\ InitOutput
    /\ dmx_double_buffer \in BOOLEAN
    /\ interface_type \in {"artnet", "enttec_open"}
    /\ IdleWatchdog
    /\ InitRun
    /\ InitExt

NextStop ==
    \/ Call(CommandLists(StopMenu))
    \/ CallBegin
    \/ CallSwap
    \/ CallApplyItem
    \/ CallApplyEnd
    \/ start
    \/ start_raises
    \/ StopBegin
    \/ StopJoined
    \/ StopJoinTimeout
    \/ StopBlackout
    \/ StopClose
    \/ TxLoop
    \/ TxFrame
    \/ TxRead
    \/ TxCheck
    \/ TxWrite
    \/ TxWriteRaises

SpecStop == InitStop /\ [][NextStop]_vars

----------------------------------------------------------------------------
(* Claims about the output *)

\* every channel byte of a frame or buffer is 0
AllZero(data) == \A i \in DOMAIN data : data[i] = 0

\* C3: while the blackout latch is set, a frame the transmit thread starts
\* is built all-zero whatever the canonical buffer holds and is what the
\* thread then writes, and a call of the output stage sets the canonical
\* buffer and the universe of the frame state to zero, whatever the commands,
\* and leaves the latch set.
C3_LatchForcesZero ==
    [][ /\ (tx_pc = "frame" /\ tx_pc' # "frame" /\ blackout_requested)
              => (tx_pc' = "check" /\ AllZero(tx_data'))
        /\ (tx_pc = "write" /\ wire' # wire) => wire' = <<TxPayload(tx_data)>>
        /\ (out_pc = "call" /\ out_pc' # "call" /\ blackout_requested)
              => /\ out_pc' = "idle"
                 /\ AllZero(universe')
                 /\ AllZero(dmx_universe')
                 /\ blackout_requested'
      ]_vars

\* a zero frame about to be written while the latch is set over a canonical
\* buffer that is not zero
C3_Witness ==
    /\ blackout_requested
    /\ ~AllZero(universe)
    /\ tx_pc = "write"
    /\ AllZero(tx_data)

\* the commands that carry a finite value for channel ch
FiniteWriters(commands, ch) ==
    {i \in 1..Len(commands) :
        /\ ch \in DOMAIN commands[i].channel_values
        /\ isfinite(commands[i].channel_values[ch])}

\* the channels that some command addresses with a value that is not finite
NonFiniteChannels(commands) ==
    {ch \in DMX_CHANNEL_MIN..DMX_CHANNEL_MAX :
        \E i \in 1..Len(commands) :
            /\ ch \in DOMAIN commands[i].channel_values
            /\ ~isfinite(commands[i].channel_values[ch])}

SetMax(S) == CHOOSE x \in S : \A y \in S : y <= x

\* the byte a finite value is committed as
Committed(fval) == PyMax(0, PyMin(255, IntOfFloat(fval)))

\* C6: the output stage, its latch clear, does not raise on a value that is
\* NaN or infinite; a channel addressed with such a value keeps its prior
\* value unless a finite value of the commands is written to it, and the
\* finite values of the same command are still applied.
C6_NonFiniteSkipped ==
    [][ /\ (out_pc = "call" /\ out_pc' # "call" /\ ~blackout_requested
              /\ dmx_double_buffer)
              => /\ raised' = "None"
                 /\ out_pc' = "swap"
                 /\ \A ch \in NonFiniteChannels(fixture_commands) :
                       next_universe'[ch] =
                           IF FiniteWriters(fixture_commands, ch) = {}
                           THEN universe[ch]
                           ELSE Committed(fixture_commands[
                                    SetMax(FiniteWriters(fixture_commands, ch))
                                ].channel_values[ch])
                 /\ \A i \in 1..Len(fixture_commands) :
                       \A ch \in DOMAIN fixture_commands[i].channel_values :
                           (is_valid_dmx_channel(ch)
                              /\ SetMax(FiniteWriters(fixture_commands, ch) \cup {0}) = i)
                             => next_universe'[ch] =
                                  Committed(fixture_commands[i].channel_values[ch])
        /\ (out_pc = "apply" /\ apply_todo # << >> /\ apply_todo' # apply_todo)
              => /\ raised' = "None"
                 /\ apply_todo' = Tail(apply_todo)
                 /\ LET ch == Head(apply_todo)[1]
                        fval == Head(apply_todo)[2]
                    IN  IF is_valid_dmx_channel(ch) /\ isfinite(fval)
                        THEN universe' = [universe EXCEPT ![ch] = Committed(fval)]
                        ELSE universe' = universe
      ]_vars

\* a command with NaN on channel 1 and 7.5 on channel 2 applied over a
\* committed 255 on channel 1
C6_Witness ==
    /\ out_pc = "swap"
    /\ fixture_commands = <<OutCommandA>>
    /\ raised = "None"
    /\ universe[1] = 255
    /\ next_universe[1] = 255
    /\ next_universe[2] = 7

\* the canonical universe buffer is well formed
BufferShape(u) ==
    /\ DOMAIN u = 0..(DMX_UNIVERSE_SIZE - 1)
    /\ u[DMX_START_CODE_INDEX] = DMX_START_CODE
    /\ \A i \in DMX_CHANNEL_MIN..DMX_CHANNEL_MAX : u[i] \in 0..255

\* index i of the buffer is a valid channel that some command addresses
Addressed(commands, i) ==
    /\ is_valid_dmx_channel(i)
    /\ \E k \in 1..Len(commands) : i \in DOMAIN commands[k].channel_values

\* C7: after any calls of the output stage, set_channel, blackout and
\* request_blackout with arbitrary channel keys and values the canonical
\* buffer has 513 bytes, byte 0 is the start code 0 and bytes 1..512 are in
\* 0..255; a command or a direct write for a channel outside 1..512 changes
\* nothing.
C7_BufferWellFormed ==
    [][ /\ universe' # universe => BufferShape(universe')
        /\ (out_pc = "call" /\ out_pc' = "swap")
              => \A i \in 0..(DMX_UNIVERSE_SIZE - 1) :
                    ~Addressed(fixture_commands, i)
                       => next_universe'[i] = universe[i]
        /\ (out_pc = "apply" /\ apply_todo # << >> /\ apply_todo' # apply_todo
              /\ ~is_valid_dmx_channel(Head(apply_todo)[1]))
              => universe' = universe
      ]_vars

\* the item for channel 513 about to be visited after a finite value of the
\* same command was written
C7_Witness ==
    /\ out_pc = "apply"
    /\ apply_todo # << >>
    /\ Head(apply_todo)[1] = 513
    /\ universe[2] = 7

\* C8: with double buffering on or off, the buffer the transmit thread reads
\* for a frame is the canonical buffer as the last completed call, set_channel
\* or blackout left it, a frame built under the latch is all-zero, and the
\* frame written is the one read or built: never a partly applied buffer.
C8_NoTornFrame ==
    [][ /\ (tx_pc = "read" /\ tx_pc' # "read") => tx_data' = last_complete
        /\ (tx_pc = "frame" /\ tx_pc' = "check") => AllZero(tx_data')
        /\ (tx_pc = "write" /\ tx_pc' # "write")
              => (wire' = wire \/ wire' = <<TxPayload(tx_data)>>)
      ]_vars

\* the transmit thread waits for the lock while the pipeline thread has
\* written a part of its commands into the canonical buffer
C8_Witness ==
    /\ tx_pc = "read"
    /\ out_pc = "apply"
    /\ apply_todo # << >>
    /\ universe # last_complete

\* C9: once stop() has returned on an output whose transport was open, the
\* transport is closed and the last frame written to it is all-zero, also when
\* the join of the transmit thread timed out.
C9_StopLeavesBlackout ==
    (out_pc = "idle" /\ transport_state = "closed")
        => (wire # << >> /\ AllZero(wire[1]))

----------------------------------------------------------------------------
(* graph/nodes/safety_interlock.py HeartbeatWatchdog                       *)
(*                                                                         *)
(* The watchdog's monotonic clock wd_now is counted in units of 0.01 s.    *)
(* time.sleep(check_interval_s) is taken to last exactly check_interval_s, *)
(* and the steps of the watchdog thread between two sleeps take no time.   *)

\* the clock advances; a sleeping watchdog thread wakes when its sleep is over
WdClock ==
    /\ wd_now < MaxWdTime
    /\ wd_pc # "loop"
    /\ wd_pc = "sleep" => wd_now < wd_wake
    /\ wd_now' = wd_now + 1
    /\ UNCHANGED <<pipeVars, runVars, extVars, wd_timeout_s, wd_check_interval_s,
                   wd_last_heartbeat, wd_timeout_triggered, wd_running, wd_pc,
                   wd_wake, wd_started_at, wd_callbacks>>

\* HeartbeatWatchdog.start, a call that finds the watchdog stopped. The model
\* keeps one watchdog thread: start() waits for an earlier one to end.
wd_start ==
    /\ ~wd_running
    /\ wd_pc \in {"none", "dead"}
    /\ wd_running' = TRUE
    /\ wd_pc' = "loop"
    /\ wd_started_at' = wd_now
    /\ UNCHANGED <<pipeVars, runVars, extVars, wd_now, wd_timeout_s, wd_check_interval_s,
                   wd_last_heartbeat, wd_timeout_triggered, wd_wake,
                   wd_callbacks>>

\* HeartbeatWatchdog.stop
wd_stop ==
    /\ wd_running
    /\ wd_running' = FALSE
    /\ UNCHANGED <<pipeVars, runVars, extVars, wd_now, wd_timeout_s, wd_check_interval_s,
                   wd_last_heartbeat, wd_timeout_triggered, wd_pc, wd_wake,
                   wd_started_at, wd_callbacks>>

\* HeartbeatWatchdog.beat
wd_beat ==
    /\ wd_last_heartbeat' = wd_now
    /\ wd_timeout_triggered' = FALSE
    /\ UNCHANGED <<pipeVars, runVars, extVars, wd_now, wd_timeout_s, wd_check_interval_s,
                   wd_running, wd_pc, wd_wake, wd_started_at, wd_callbacks>>

\* _run_loop: the test of `while self._running` and the start of the sleep
WdLoop ==
    /\ wd_pc = "loop"
    /\ IF wd_running
       THEN /\ wd_pc' = "sleep"
            /\ wd_wake' = wd_now + wd_check_interval_s
       ELSE /\ wd_pc' = "dead"
            /\ UNCHANGED wd_wake
    /\ UNCHANGED <<pipeVars, runVars, extVars, wd_now, wd_timeout_s, wd_check_interval_s,
                   wd_last_heartbeat, wd_timeout_triggered, wd_running,
                   wd_started_at, wd_callbacks>>

\* _run_loop: the comparison of a poll
\* (a comparison that lets one more unit pass)
WdElapsedLate(elapsed, timeout_s) == elapsed > timeout_s + 1
WdElapsed(elapsed, timeout_s) == elapsed > timeout_s

\* _run_loop: one poll after the sleep; the callback is request_blackout
WdPoll ==
    /\ wd_pc = "sleep"
    /\ wd_now = wd_wake
    /\ LET elapsed == wd_now - wd_last_heartbeat
       IN  IF WdElapsed(elapsed, wd_timeout_s) /\ ~wd_timeout_triggered
           THEN /\ wd_timeout_triggered' = TRUE
                /\ blackout_requested' = TRUE
                /\ wd_callbacks' = wd_callbacks + 1
           ELSE UNCHANGED <<wd_timeout_triggered, blackout_requested, wd_callbacks>>
    /\ wd_pc' = "loop"
    /\ UNCHANGED <<frameVars, interpVars, silVars, universe, dmx_double_buffer,
                   raised, ioVars, runVars, extVars, wd_now, wd_timeout_s,
                   wd_check_interval_s, wd_last_heartbeat, wd_running, wd_wake,
                   wd_started_at>>

----------------------------------------------------------------------------
(* SpecWd: the watchdog started, beaten and stopped at arbitrary times *)

InitWd ==
    /\ InitFrame /\ InitInterpreter /\ InitInterlock /\ InitOutput
    /\ dmx_double_buffer = TRUE
    /\ interface_type = "artnet"
    /\ InitWatchdog
    /\ InitRun
    /\ InitExt

NextWd ==
    \/ WdClock
    \/ wd_start
    \/ wd_stop
    \/ wd_beat
    \/ WdLoop
    \/ WdPoll

SpecWd == InitWd /\ [][NextWd]_vars

\* a poll of the watchdog thread
WdPollStep == wd_pc = "sleep" /\ wd_pc' = "loop"

\* the watchdog is running since time `since` and its callback is overdue
WdOverdue(since) ==
    /\ wd_running
    /\ wd_pc \in {"loop", "sleep"}
    /\ wd_now > since + wd_timeout_s + wd_check_interval_s

\* C4 as stated: a running watchdog invokes its callback at the first poll at
\* which now - last_heartbeat > timeout_s, which is no later than timeout_s +
\* check_interval_s after the last heartbeat.
C4_FiresWithinTimeoutPlusInterval ==
    [][ /\ WdPollStep =>
              ( (wd_now - wd_last_heartbeat > wd_timeout_s /\ ~wd_timeout_triggered)
                  <=> wd_callbacks' = wd_callbacks + 1 )
        /\ ~WdPollStep => wd_callbacks' = wd_callbacks
        /\ WdOverdue(wd_last_heartbeat)' => wd_timeout_triggered'
      ]_vars

\* C4 amended: a running watchdog invokes its callback at the first poll at
\* which now - last_heartbeat > timeout_s, which is no later than timeout_s +
\* check_interval_s after the later of the last heartbeat and the start() that
\* set the watchdog running.
C4_FiresWithinTimeoutPlusIntervalOfStart ==
    [][ /\ WdPollStep =>
              ( (wd_now - wd_last_heartbeat > wd_timeout_s /\ ~wd_timeout_triggered)
                  <=> wd_callbacks' = wd_callbacks + 1 )
        /\ ~WdPollStep => wd_callbacks' = wd_callbacks
        /\ WdOverdue(PyMax(wd_last_heartbeat, wd_started_at))' => wd_timeout_triggered'
      ]_vars

\* the callback invoked by a watchdog that was beaten while it was running
C4_Witness ==
    /\ wd_running
    /\ wd_callbacks > 0
    /\ wd_timeout_triggered
    /\ blackout_requested
    /\ wd_last_heartbeat > wd_started_at
    /\ wd_now = wd_wake
    /\ wd_now > wd_last_heartbeat + wd_timeout_s

----------------------------------------------------------------------------
(* graph/builder.py PhotonicGraph: start, stop, step and run_loop *)

\* the nodes start() starts, in its order, and stop() stops, in its order
StartOrder == <<"audio_sense", "midi_sense", "cv_sense", "dmx_output",
                "safety_interlock">>
StopOrder == <<"audio_sense", "midi_sense", "cv_sense", "safety_interlock",
               "dmx_output">>

\* run_loop is called: frame_time is computed, before the try block
RunLoopCall ==
    /\ run_pc = "idle"
    /\ run_pc' = "called"
    /\ UNCHANGED <<pipeVars, wdVars, extVars, g_running, g_nodes, g_idx, run_exc,
                   run_propagated, run_stopped, stop_signalled, frame_number>>

\* the try block is entered and start() sets _running
RunLoopEnter ==
    /\ run_pc = "called"
    /\ g_running' = TRUE
    /\ g_idx' = 1
    /\ run_pc' = "start"
    /\ UNCHANGED <<pipeVars, wdVars, extVars, g_nodes, run_exc, run_propagated,
                   run_stopped, stop_signalled, frame_number>>

\* start(): the start() of the next node returns
NodeStart ==
    /\ run_pc = "start"
    /\ g_idx <= Len(StartOrder)
    /\ g_nodes' = g_nodes \cup {StartOrder[g_idx]}
    /\ g_idx' = g_idx + 1
    /\ UNCHANGED <<pipeVars, wdVars, extVars, g_running, run_pc, run_exc, run_propagated,
                   run_stopped, stop_signalled, frame_number>>

\* start(): the start() of the next node raises
NodeStartRaises ==
    /\ run_pc = "start"
    /\ g_idx <= Len(StartOrder)
    /\ run_exc' = StartOrder[g_idx]
    /\ g_idx' = 1
    /\ run_pc' = "finally"
    /\ UNCHANGED <<pipeVars, wdVars, extVars, g_running, g_nodes, run_propagated,
                   run_stopped, stop_signalled, frame_number>>

\* start() returns and the loop is reached
StartReturns ==
    /\ run_pc = "start"
    /\ g_idx > Len(StartOrder)
    /\ g_idx' = 0
    /\ run_pc' = "loop"
    /\ UNCHANGED <<pipeVars, wdVars, extVars, g_running, g_nodes, run_exc,
                   run_propagated, run_stopped, stop_signalled, frame_number>>

\* run_loop: the test of `while self._running`
LoopTest ==
    /\ run_pc = "loop"
    /\ g_running => frame_number < MaxTicks
    /\ IF g_running
       THEN /\ run_pc' = "step"
            /\ UNCHANGED g_idx
       ELSE /\ run_pc' = "finally"
            /\ g_idx' = 1
    /\ UNCHANGED <<pipeVars, wdVars, extVars, g_running, g_nodes, run_exc,
                   run_propagated, run_stopped, stop_signalled, frame_number>>

\* step() returns: one tick of the graph is done
StepReturns ==
    /\ run_pc = "step"
    /\ frame_number' = frame_number + 1
    /\ run_pc' = "loop"
    /\ UNCHANGED <<pipeVars, wdVars, extVars, g_running, g_nodes, g_idx, run_exc,
                   run_propagated, run_stopped, stop_signalled>>

\* step() raises: a stage of the tick raised
StepRaises ==
    /\ run_pc = "step"
    /\ run_exc' = "step"
    /\ g_idx' = 1
    /\ run_pc' = "finally"
    /\ UNCHANGED <<pipeVars, wdVars, extVars, g_running, g_nodes, run_propagated,
                   run_stopped, stop_signalled, frame_number>>

\* stop() called from the signal handler of the CLI while run_loop runs
SignalStop ==
    /\ run_pc \in {"called", "start", "loop", "step"}
    /\ g_running' = FALSE
    /\ g_nodes' = {}
    /\ stop_signalled' = TRUE
    /\ UNCHANGED <<pipeVars, wdVars, extVars, g_idx, run_pc, run_exc, run_propagated,
                   run_stopped, frame_number>>

\* where run_loop goes when its try block is left
\* (a stop() that only follows the loop, with no finally block)
FinallySkippedOnRaise ==
    IF run_exc = "None" THEN "stop" ELSE "exit"
Finally == "stop"

\* the finally block is entered: stop() sets _running to False
FinallyEnter ==
    /\ run_pc = "finally"
    /\ IF Finally = "stop"
       THEN /\ g_running' = FALSE
            /\ run_pc' = "stop"
       ELSE /\ run_pc' = "exit"
            /\ UNCHANGED g_running
    /\ UNCHANGED <<pipeVars, wdVars, extVars, g_nodes, g_idx, run_exc, run_propagated,
                   run_stopped, stop_signalled, frame_number>>

\* stop(): the stop() of the next node returns
NodeStop ==
    /\ run_pc = "stop"
    /\ g_idx <= Len(StopOrder)
    /\ g_nodes' = g_nodes \ {StopOrder[g_idx]}
    /\ g_idx' = g_idx + 1
    /\ UNCHANGED <<pipeVars, wdVars, extVars, g_running, run_pc, run_exc, run_propagated,
                   run_stopped, stop_signalled, frame_number>>

\* stop() returns: the finally block is done
StopReturns ==
    /\ run_pc = "stop"
    /\ g_idx > Len(StopOrder)
    /\ run_stopped' = TRUE
    /\ g_idx' = 0
    /\ run_pc' = "exit"
    /\ UNCHANGED <<pipeVars, wdVars, extVars, g_running, g_nodes, run_exc,
                   run_propagated, stop_signalled, frame_number>>

\* run_loop returns, or the exception in flight leaves it
RunLoopExit ==
    /\ run_pc = "exit"
    /\ run_propagated' = run_exc
    /\ run_pc' = IF run_exc = "None" THEN "returned" ELSE "raised"
    /\ UNCHANGED <<pipeVars, wdVars, extVars, g_running, g_nodes, g_idx, run_exc,
                   run_stopped, stop_signalled, frame_number>>

----------------------------------------------------------------------------
(* SpecRun: run_loop with start() or step() raising and a stop signal *)

InitRunLoop ==
    /\ InitFrame /\ InitInterpreter /\ InitInterlock /\ InitOutput
    /\ dmx_double_buffer = TRUE
    /\ interface_type = "artnet"
    /\ IdleWatchdog
    /\ InitRun
    /\ InitExt

NextRun ==
    \/ RunLoopCall
    \/ RunLoopEnter
    \/ NodeStart
    \/ NodeStartRaises
    \/ StartReturns
    \/ LoopTest
    \/ StepReturns
    \/ StepRaises
    \/ SignalStop
    \/ FinallyEnter
    \/ NodeStop
    \/ StopReturns
    \/ RunLoopExit

SpecRun == InitRunLoop /\ [][NextRun]_vars

----------------------------------------------------------------------------
(* PhotonicGraph.start and PhotonicGraph.stop called one after another, in  *)
(* any order, with the start() and stop() of each node. A call is one step *)
(* per node, in the order of the code. cv_sense has no start and no stop.   *)

\* what AudioSenseNode.start meets: the stream opens and starts, the device
\* is not found or the stream cannot be created, or the stream is created and
\* its start() raises
AudioOutcomes == {"opened", "no_stream", "start_failed"}

\* what MidiSenseNode.start meets: the port opens, no port is found, or
\* mido.open_input raises
MidiOutcomes == {"opened", "no_port", "open_failed"}

\* the caller is between two calls
CallerReady == life_pc \in {"idle", "started", "stopped", "raised"}

\* start() is at the start() of `node`
AtStart(node) ==
    /\ life_pc = "start"
    /\ g_idx <= Len(StartOrder)
    /\ StartOrder[g_idx] = node

\* stop() is at the stop() of `node`
AtStop(node) ==
    /\ life_pc = "stop"
    /\ g_idx <= Len(StopOrder)
    /\ StopOrder[g_idx] = node

\* PhotonicGraph.start is called: self._running = True
GraphStart ==
    /\ CallerReady
    /\ life_calls < MaxCalls
    /\ g_running' = TRUE
    /\ g_idx' = 1
    /\ life_pc' = "start"
    /\ life_exc' = "None"
    /\ life_calls' = life_calls + 1
    /\ UNCHANGED <<pipeVars, wdVars, errVars, auxVars, g_nodes, run_pc, run_exc,
                   run_propagated, run_stopped, stop_signalled, frame_number, audio_running,
                   audio_stream, open_streams, midi_running, midi_port,
                   open_ports>>

\* AudioSenseNode.start: it returns when already running; else it creates the
\* stream, starts it and sets _running, any exception leaving it as an
\* AudioCaptureError
GraphStartAudio ==
    /\ AtStart("audio_sense")
    /\ IF audio_running
       THEN /\ g_idx' = g_idx + 1
            /\ UNCHANGED <<audio_running, audio_stream, open_streams, life_pc,
                           life_exc>>
       ELSE \E outcome \in AudioOutcomes :
            /\ IF outcome = "no_stream"
               THEN UNCHANGED <<audio_stream, open_streams>>
               ELSE /\ audio_stream' = "stream"
                    /\ open_streams' = open_streams + 1
            /\ IF outcome = "opened"
               THEN /\ audio_running' = TRUE
                    /\ g_idx' = g_idx + 1
                    /\ UNCHANGED <<life_pc, life_exc>>
               ELSE /\ life_exc' = "AudioCaptureError"
                    /\ life_pc' = "raised"
                    /\ g_idx' = 0
                    /\ UNCHANGED audio_running
    /\ UNCHANGED <<pipeVars, wdVars, errVars, auxVars, g_running, g_nodes, run_pc,
                   run_exc, run_propagated, run_stopped, stop_signalled, frame_number,
                   midi_running, midi_port, open_ports, life_calls>>

\* MidiSenseNode.start: it looks for the port and opens it, whatever
\* self._port and self._running are; an exception of the open is logged
GraphStartMidi ==
    /\ AtStart("midi_sense")
    /\ \E outcome \in MidiOutcomes :
           IF outcome = "opened"
           THEN /\ midi_port' = "port"
                /\ open_ports' = open_ports + 1
                /\ midi_running' = TRUE
           ELSE UNCHANGED <<midi_port, open_ports, midi_running>>
    /\ g_idx' = g_idx + 1
    /\ UNCHANGED <<pipeVars, wdVars, errVars, auxVars, g_running, g_nodes, run_pc,
                   run_exc, run_propagated, run_stopped, stop_signalled, frame_number,
                   audio_running, audio_stream, open_streams, life_pc,
                   life_exc, life_calls>>

\* start(): cv_sense has no start()
GraphStartCv ==
    /\ AtStart("cv_sense")
    /\ g_idx' = g_idx + 1
    /\ UNCHANGED <<pipeVars, wdVars, errVars, auxVars, lifeVars, g_running, g_nodes,
                   run_pc, run_exc, run_propagated, run_stopped, stop_signalled, frame_number>>

\* DMXOutputNode.start: it returns when already running; else the transport
\* opens and the thread is created, or DMXConnectionError leaves start()
GraphStartDmx ==
    /\ AtStart("dmx_output")
    /\ out_pc = "idle"
    /\ IF out_running
       THEN /\ g_idx' = g_idx + 1
            /\ UNCHANGED <<transport_attr, transport_state, out_running,
                           tx_thread, tx_pc, start_exc, life_pc, life_exc>>
       ELSE /\ tx_pc \in {"off", "dead"}
            /\ \E opens \in BOOLEAN :
               /\ StartTransport(opens)
               /\ IF opens
                  THEN /\ g_idx' = g_idx + 1
                       /\ UNCHANGED <<life_pc, life_exc>>
                  ELSE /\ life_exc' = "DMXConnectionError"
                       /\ life_pc' = "raised"
                       /\ g_idx' = 0
    /\ UNCHANGED <<frameVars, interpVars, silVars, outVars, wdVars, auxVars,
                   interface_type, lock, frames_sent, errors, out_pc,
                   next_universe, apply_todo, mon_pc, tx_data, wire,
                   last_complete, g_running, g_nodes, run_pc, run_exc,
                   run_propagated, run_stopped, stop_signalled, frame_number, audio_running,
                   audio_stream, open_streams, midi_running, midi_port,
                   open_ports, life_calls>>

\* SafetyInterlockNode.start: HeartbeatWatchdog.start returns when already
\* running, else it creates the watchdog thread
GraphStartInterlock ==
    /\ AtStart("safety_interlock")
    /\ IF wd_running
       THEN UNCHANGED <<wd_running, wd_pc, wd_started_at>>
       ELSE /\ wd_pc \in {"none", "dead"}
            /\ wd_running' = TRUE
            /\ wd_pc' = "loop"
            /\ wd_started_at' = wd_now
    /\ g_idx' = g_idx + 1
    /\ UNCHANGED <<pipeVars, errVars, auxVars, lifeVars, wd_now, wd_timeout_s,
                   wd_check_interval_s, wd_last_heartbeat,
                   wd_timeout_triggered, wd_wake, wd_callbacks, g_running,
                   g_nodes, run_pc, run_exc, run_propagated, run_stopped, stop_signalled,
                   frame_number>>

\* PhotonicGraph.start returns
GraphStartReturns ==
    /\ life_pc = "start"
    /\ g_idx > Len(StartOrder)
    /\ g_idx' = 0
    /\ life_pc' = "started"
    /\ UNCHANGED <<pipeVars, wdVars, errVars, auxVars, g_running, g_nodes, run_pc,
                   run_exc, run_propagated, run_stopped, stop_signalled, frame_number,
                   audio_running, audio_stream, open_streams, midi_running,
                   midi_port, open_ports, life_exc, life_calls>>

\* PhotonicGraph.stop is called: self._running = False
GraphStop ==
    /\ CallerReady
    /\ life_calls < MaxCalls
    /\ g_running' = FALSE
    /\ g_idx' = 1
    /\ life_pc' = "stop"
    /\ life_exc' = "None"
    /\ life_calls' = life_calls + 1
    /\ UNCHANGED <<pipeVars, wdVars, errVars, auxVars, g_nodes, run_pc, run_exc,
                   run_propagated, run_stopped, stop_signalled, frame_number, audio_running,
                   audio_stream, open_streams, midi_running, midi_port,
                   open_ports>>

\* AudioSenseNode.stop: the stream in self._stream is stopped and closed
GraphStopAudio ==
    /\ AtStop("audio_sense")
    /\ IF audio_stream = "stream"
       THEN /\ open_streams' = open_streams - 1
            /\ audio_stream' = "None"
       ELSE UNCHANGED <<open_streams, audio_stream>>
    /\ audio_running' = FALSE
    /\ g_idx' = g_idx + 1
    /\ UNCHANGED <<pipeVars, wdVars, errVars, auxVars, g_running, g_nodes, run_pc,
                   run_exc, run_propagated, run_stopped, stop_signalled, frame_number,
                   midi_running, midi_port, open_ports, life_pc, life_exc,
                   life_calls>>

\* MidiSenseNode.stop: the port in self._port is closed
GraphStopMidi ==
    /\ AtStop("midi_sense")
    /\ IF midi_port = "port"
       THEN /\ open_ports' = open_ports - 1
            /\ midi_port' = "None"
       ELSE UNCHANGED <<open_ports, midi_port>>
    /\ midi_running' = FALSE
    /\ g_idx' = g_idx + 1
    /\ UNCHANGED <<pipeVars, wdVars, errVars, auxVars, g_running, g_nodes, run_pc,
                   run_exc, run_propagated, run_stopped, stop_signalled, frame_number,
                   audio_running, audio_stream, open_streams, life_pc,
                   life_exc, life_calls>>

\* stop(): cv_sense has no stop()
GraphStopCv ==
    /\ AtStop("cv_sense")
    /\ g_idx' = g_idx + 1
    /\ UNCHANGED <<pipeVars, wdVars, errVars, auxVars, lifeVars, g_running, g_nodes,
                   run_pc, run_exc, run_propagated, run_stopped, stop_signalled, frame_number>>

\* SafetyInterlockNode.stop: HeartbeatWatchdog.stop clears _running and joins
\* the thread for up to 1.0 s; the thread sleeps check_interval_s = 0.1 s at
\* most before it tests _running, so the join returns with the thread ended
GraphStopInterlock ==
    /\ AtStop("safety_interlock")
    /\ wd_running' = FALSE
    /\ wd_pc' = IF wd_pc = "none" THEN "none" ELSE "dead"
    /\ g_idx' = g_idx + 1
    /\ UNCHANGED <<pipeVars, errVars, auxVars, lifeVars, wd_now, wd_timeout_s,
                   wd_check_interval_s, wd_last_heartbeat,
                   wd_timeout_triggered, wd_wake, wd_started_at, wd_callbacks,
                   g_running, g_nodes, run_pc, run_exc, run_propagated,
                   run_stopped, stop_signalled, frame_number>>

\* stop() calls DMXOutputNode.stop: self._running = False, then the join
GraphStopDmxCall ==
    /\ AtStop("dmx_output")
    /\ out_pc = "idle"
    /\ out_running' = FALSE
    /\ out_pc' = "stop_join"
    /\ life_pc' = "stop_dmx"
    /\ UNCHANGED <<frameVars, interpVars, silVars, outVars, wdVars, errVars,
                   auxVars, runVars, interface_type, lock, tx_thread, transport_attr,
                   transport_state, frames_sent, errors, next_universe,
                   apply_todo, mon_pc, tx_pc, tx_data, wire, last_complete,
                   audio_running, audio_stream, open_streams, midi_running,
                   midi_port, open_ports, life_exc, life_calls>>

\* DMXOutputNode.stop has returned
GraphStopDmxReturns ==
    /\ life_pc = "stop_dmx"
    /\ out_pc = "idle"
    /\ life_pc' = "stop"
    /\ g_idx' = g_idx + 1
    /\ UNCHANGED <<pipeVars, wdVars, errVars, auxVars, g_running, g_nodes, run_pc,
                   run_exc, run_propagated, run_stopped, stop_signalled, frame_number,
                   audio_running, audio_stream, open_streams, midi_running,
                   midi_port, open_ports, life_exc, life_calls>>

\* PhotonicGraph.stop returns
GraphStopReturns ==
    /\ life_pc = "stop"
    /\ g_idx > Len(StopOrder)
    /\ g_idx' = 0
    /\ life_pc' = "stopped"
    /\ UNCHANGED <<pipeVars, wdVars, errVars, auxVars, g_running, g_nodes, run_pc,
                   run_exc, run_propagated, run_stopped, stop_signalled, frame_number,
                   audio_running, audio_stream, open_streams, midi_running,
                   midi_port, open_ports, life_exc, life_calls>>

----------------------------------------------------------------------------
(* SpecLife: start() and stop() of the orchestrator, with the transmit     *)
(* thread of the output                                                    *)

InitLifecycle ==
    /\ InitFrame /\ InitInterpreter /\ InitInterlock /\ InitOutput
    /\ dmx_double_buffer = TRUE
    /\ interface_type \in {"artnet", "enttec_open"}
    /\ IdleWatchdog
    /\ InitRun
    /\ InitExt

NextLife ==
    \/ GraphStart
    \/ GraphStartAudio
    \/ GraphStartMidi
    \/ GraphStartCv
    \/ GraphStartDmx
    \/ GraphStartInterlock
    \/ GraphStartReturns
    \/ GraphStop
    \/ GraphStopAudio
    \/ GraphStopMidi
    \/ GraphStopCv
    \/ GraphStopInterlock
    \/ GraphStopDmxCall
    \/ StopJoined
    \/ StopJoinTimeout
    \/ StopBlackout
    \/ StopClose
    \/ GraphStopDmxReturns
    \/ GraphStopReturns
    \/ TxLoop
    \/ TxFrame
    \/ TxRead
    \/ TxCheck
    \/ TxWrite
    \/ TxWriteRaises

SpecLife == InitLifecycle /\ [][NextLife]_vars

\* every stage is stopped: no stream, port or transport is open and no worker
\* thread is alive
EveryStageStopped ==
    /\ ~audio_running /\ audio_stream = "None" /\ open_streams = 0
    /\ ~midi_running /\ midi_port = "None" /\ open_ports = 0
    /\ ~out_running /\ tx_thread = "None" /\ tx_pc \in {"off", "dead"}
    /\ transport_attr = "None" /\ transport_state # "open"
    /\ ~wd_running /\ wd_pc \in {"none", "dead"}

\* C11: start() and stop() of the orchestrator are idempotent: at any time at
\* most one input stream and at most one MIDI port is open, however often
\* start() was called, and whenever stop() has returned, also a second stop()
\* or one after a start() that raised, it raised nothing and every stage is
\* stopped with no worker thread alive and no stream, port or transport open.
C11_StartStopIdempotent ==
    /\ open_streams <= 1
    /\ open_ports <= 1
    /\ life_pc = "stopped" => (life_exc = "None" /\ EveryStageStopped)

----------------------------------------------------------------------------
(* Claims about the failures of the output *)

\* C12: when the transport, serial or Art-Net, fails to open in start() of
\* the output, start() raises DMXConnectionError with recoverable = False, no
\* transmit thread is created and the output is left not running.
C12_OpenFailureRaises ==
    start_exc # NoException =>
        /\ start_exc = PhotonicError("DMXConnectionError", FALSE)
        /\ ~out_running
        /\ tx_thread = "None"
        /\ tx_pc \in {"off", "dead"}

\* the output ran and was stopped, and the Art-Net transport then failed to
\* open: start() has raised and left an ArtNetTransmitter without a socket
C12_Witness ==
    /\ start_exc.type = "DMXConnectionError"
    /\ interface_type = "artnet"
    /\ transport_attr = "object"
    /\ transport_state = "unopened"
    /\ tx_pc = "dead"

\* C13: an exception raised while a frame is sent does not leave the transmit
\* loop and does not end it: a send ends either counted in frames_sent or, when
\* it raised, counted once in errors and not in frames_sent, errors grows in
\* no other way, the thread goes back to the test of the loop, it ends only
\* when the output is not running, and while the output is running the test
\* leads to the next frame.
C13_SendErrorCounted ==
    [][ /\ (tx_pc = "write" /\ tx_pc' # "write") =>
               /\ tx_pc' = "loop"
               /\ \/ frames_sent' = frames_sent + 1 /\ errors' = errors
                  \/ errors' = errors + 1 /\ frames_sent' = frames_sent
               /\ ~(transport_attr = "object" /\ transport_state = "open")
                      => errors' = errors + 1
        /\ errors' # errors =>
               /\ tx_pc = "write"
               /\ errors' = errors + 1
               /\ frames_sent' = frames_sent
        /\ (tx_pc # "dead" /\ tx_pc' = "dead") => (tx_pc = "loop" /\ ~out_running)
        /\ (tx_pc = "loop" /\ out_running /\ tx_pc' # "loop") => tx_pc' = "frame"
      ]_vars

\* a send raised on the open transport of a running output, with no frame
\* sent yet, and the thread is at its next frame
C13_Witness ==
    /\ errors = 1
    /\ frames_sent = 0
    /\ out_running
    /\ transport_state = "open"
    /\ wire = << >>
    /\ tx_pc = "frame"

----------------------------------------------------------------------------
(* SpecInterp: ticks of the pipeline with an interpreter built with any    *)
(* max_delta_per_frame, a strobe budget that changes from tick to tick and *)
(* commands as the fixture-control stages build them: byte values, the     *)
(* fixture's start address always among the channels                       *)

InterpLaserSlow ==
    FixtureCommand("laser-1", "laser", (10 :> 200) @@ (13 :> 255) @@ (14 :> 5))
InterpLaserFast ==
    FixtureCommand("laser-1", "laser", (10 :> 200) @@ (13 :> 40) @@ (14 :> 200))
InterpMover ==
    FixtureCommand("mover-1", "moving_head", (20 :> 150) @@ (26 :> 255))
InterpPanel ==
    FixtureCommand("panel-1", "panel", (40 :> 255) @@ (44 :> 100))

\* the command lists of a tick
InterpCommandLists ==
    { << >>, <<InterpLaserSlow>>, <<InterpLaserFast>>, <<InterpMover>>,
      <<InterpLaserFast, InterpMover, InterpPanel>> }

\* the max_delta_per_frame arguments of the constructor
MaxDeltaArgs == {0, 10, 36, 255}

\* strobe budgets of the director, in tenths of a hertz
StrobeBudgets == {0, 3, 10}

InitInterp ==
    /\ InitFrame /\ InitInterlock /\ InitOutput
    /\ \E max_delta_arg \in MaxDeltaArgs : InitInterpreterWith(max_delta_arg)
    /\ dmx_double_buffer = TRUE
    /\ interface_type = "artnet"
    /\ IdleWatchdog
    /\ InitRun
    /\ InitExt

NextInterp ==
    \/ UpstreamLists(InterpCommandLists, {1}, {100}, StrobeBudgets, MaxInterpTime)
    \/ InterpreterNode
    \/ SafetyInterlockNode
    \/ DMXOutputNode

SpecInterp == InitInterp /\ [][NextInterp]_vars

----------------------------------------------------------------------------
(* Claims about the interpreter. In a step of InterpreterNode the unprimed *)
(* fixture_commands are the requests and the primed ones its output.       *)

Abs(x) == IF x < 0 THEN -x ELSE x

Between(a, x, b) == (a <= x /\ x <= b) \/ (b <= x /\ x <= a)

\* the commands of this tick before command i that carry channel ch
EarlierWith(i, ch) ==
    {j \in 1..(i - 1) : ch \in DOMAIN fixture_commands[j].channel_values}

\* the value the interpreter had last committed on ch when it came to command
\* i of this tick, 0 if it had never seen the channel
LastCommitted(i, ch) ==
    IF EarlierWith(i, ch) = {}
    THEN DictGet(last_channel_values, ch, 0)
    ELSE fixture_commands'[SetMax(EarlierWith(i, ch))].channel_values[ch]

\* the request of command i on ch after the laser and strobe clamps
ClampedRequest(i, ch) ==
    ConstrainValues(fixture_commands[i].fixture_type,
                    fixture_commands[i].channel_values, strobe_budget)[ch]

\* C14: for every channel of every command the interpreter processes, the
\* output is in 0..255, is at most max_delta_per_frame away from the value the
\* interpreter last committed on the channel (0 if never seen), lies between
\* that value and the safety-clamped request, equals the request when the
\* request is within max_delta_per_frame of that value, and is the channel's
\* new last-committed value.
C14_SlewLimited ==
    [][ stage = "interpreter" =>
          /\ Len(fixture_commands') = Len(fixture_commands)
          /\ \A i \in 1..Len(fixture_commands) :
               /\ DOMAIN fixture_commands'[i].channel_values
                      = DOMAIN fixture_commands[i].channel_values
               /\ \A ch \in DOMAIN fixture_commands[i].channel_values :
                    LET out == fixture_commands'[i].channel_values[ch]
                        prev == LastCommitted(i, ch)
                        req == ClampedRequest(i, ch)
                        later == {j \in (i + 1)..Len(fixture_commands) :
                                     ch \in DOMAIN fixture_commands[j].channel_values}
                    IN  /\ out \in 0..255
                        /\ Abs(out - prev) <= max_delta_per_frame
                        /\ Between(prev, out, req)
                        /\ Abs(req - prev) <= max_delta_per_frame => out = req
                        /\ later = {} =>
                               /\ ch \in DOMAIN last_channel_values'
                               /\ last_channel_values'[ch] = out
      ]_vars

\* the third step of a ramp with max_delta_per_frame = 36: channel 20 of
\* mover-1, requested at 150, has gone from 72 to 108, and its strobe channel,
\* requested at 255 under a full budget, likewise
C14_Witness ==
    /\ stage = "safety_interlock"
    /\ max_delta_per_frame = 36
    /\ strobe_budget = 10
    /\ fixture_commands = <<FixtureCommand("mover-1", "moving_head",
                                           (20 :> 108) @@ (26 :> 108))>>
    /\ DictGet(last_channel_values, 20, 0) = 108

\* the configured fixture a command names, as a set
FixtureOf(command) ==
    {Fixtures[k] : k \in {n \in 1..Len(Fixtures) :
                             Fixtures[n].id = command.fixture_id}}

\* C15: for every laser command that carries the configured scan-speed
\* channel of its fixture, the value the interpreter puts out on that channel
\* is at least min_scan_speed, whatever max_delta_per_frame and the history of
\* the channel are.
C15_ScanSpeedFloor ==
    [][ stage = "interpreter" =>
          \A i \in 1..Len(fixture_commands) :
            fixture_commands[i].fixture_type = "laser" =>
              \A f \in FixtureOf(fixture_commands[i]) :
                LET ch == f.start_address + speed_channel_offset
                IN  ch \in DOMAIN fixture_commands[i].channel_values =>
                        fixture_commands'[i].channel_values[ch] >= min_scan_speed
      ]_vars

\* round(clamp(strobe_budget_hz / max_safe_rate_hz, 0, 1) * 255), the budget
\* in tenths of a hertz, a half rounded up
StrobeCeiling(budget_tenths) ==
    LET max_safe_tenths == PyMax(1, 10 * max_rate_hz)
        clamped == PyMin(max_safe_tenths, PyMax(0, budget_tenths))
    IN  (2 * 255 * clamped + max_safe_tenths) \div (2 * max_safe_tenths)

\* the strobe channel of a fixture: start address + 6 for a moving head, + 4
\* for a panel
StrobeChannelOf(f) ==
    f.start_address + (IF f.type = "moving_head" THEN 6 ELSE 4)

\* C16: on every tick, for every moving-head or panel command, the value the
\* interpreter puts out on the fixture's strobe channel is at most the ceiling
\* round(clamp(strobe_budget_hz / max_safe_rate_hz, 0, 1) * 255) of the budget
\* of that tick; a budget of 0 gives a strobe output of 0.
C16_StrobeWithinBudget ==
    [][ stage = "interpreter" =>
          \A i \in 1..Len(fixture_commands) :
            fixture_commands[i].fixture_type \in {"moving_head", "panel"} =>
              \A f \in FixtureOf(fixture_commands[i]) :
                StrobeChannelOf(f) \in DOMAIN fixture_commands[i].channel_values =>
                    fixture_commands'[i].channel_values[StrobeChannelOf(f)]
                        <= StrobeCeiling(strobe_budget)
      ]_vars

----------------------------------------------------------------------------
(* Graceful degradation, under Spec *)

\* the commands and the universe copy the interlock holds when it reaches
\* the degradation step of a tick
BeforeDegradation ==
    LET hb_timeout == HeartbeatTimedOut(timestamp, si_last_heartbeat)
        u1 == IF hb_timeout THEN emergency_blackout ELSE dmx_universe
        u2 == IF emergency_stop THEN emergency_blackout ELSE u1
        lc == LaserClamp(fixture_commands, u2, 1)
    IN  apply_strobe_guards(lc.commands, lc.universe, timestamp)

\* a tick of the interlock with low beat confidence and degradation enabled
DegradedTick ==
    /\ stage = "safety_interlock"
    /\ stage' = "dmx_output"
    /\ beat_confidence < min_beat_confidence
    /\ graceful_degradation

\* scale = max(0.35, min(1.0, confidence / min_beat_confidence)) as a fraction
StatedScale ==
    LET ratio == [num |-> PyMax(0, PyMin(min_beat_confidence, beat_confidence)),
                  den |-> min_beat_confidence]
    IN  IF 100 * ratio.num >= 35 * ratio.den THEN ratio
        ELSE [num |-> 35, den |-> 100]

\* the start addresses of the laser fixtures
LaserModeChannels ==
    {laser_fixtures[k].start_address : k \in 1..Len(laser_fixtures)}

\* out is value * scale rounded to a nearest integer and clamped to 0..255
IsRounded(out, value, scale) ==
    /\ out \in 0..255
    /\ \/ 2 * Abs(out * scale.den - value * scale.num) <= scale.den
       \/ out = 255 /\ value * scale.num >= 255 * scale.den

\* out is value * scale cut down to an integer and clamped to 0..255: the
\* floor of the product, or the integer below where the product is integral
IsTruncated(out, value, scale) ==
    /\ out \in 0..255
    /\ \/ /\ out * scale.den <= value * scale.num
          /\ value * scale.num <= (out + 1) * scale.den
       \/ out = 255 /\ value * scale.num >= 255 * scale.den

\* every value of the commands and of the universe snapshot after a degraded
\* tick is related by R to the value before it, the laser mode channels and
\* the zero values being left alone
DegradedBy(R(_, _, _)) ==
    LET pre == BeforeDegradation
        scale == StatedScale
    IN  /\ Len(fixture_commands') = Len(pre.commands)
        /\ \A i \in 1..Len(pre.commands) :
              LET before == pre.commands[i].channel_values
                  after == fixture_commands'[i].channel_values
              IN  /\ DOMAIN after = DOMAIN before
                  /\ \A ch \in DOMAIN before :
                        IF ch \in LaserModeChannels \/ before[ch] = 0
                        THEN after[ch] = before[ch]
                        ELSE R(after[ch], before[ch], scale)
        /\ \A ch \in 1..512 :
              IF ch \in LaserModeChannels \/ pre.universe[ch] = 0
              THEN dmx_universe'[ch] = pre.universe[ch]
              ELSE R(dmx_universe'[ch], pre.universe[ch], scale)

\* C17 as stated: on a tick with beat confidence below min_beat_confidence
\* and degradation enabled, every non-zero value that is not a laser
\* fixture's mode channel becomes round(value * scale) clamped to 0..255, in
\* the commands and in the universe snapshot, and every laser mode channel
\* and every zero value is left unchanged
C17_DegradationRounds ==
    [][DegradedTick => DegradedBy(IsRounded)]_vars

\* C17 amended: on such a tick every non-zero value that is not a laser
\* fixture's mode channel becomes value * scale cut down to an integer (the
\* floor of the product, or the integer below it where the product is
\* integral) and clamped to 0..255, in the commands and in the universe
\* snapshot, and every laser mode channel and every zero value is left
\* unchanged
C17_DegradationTruncates ==
    [][DegradedTick => DegradedBy(IsTruncated)]_vars

\* a degraded tick has cut the laser's requests 36 to 12 and left its mode
\* channel at 36
C17_Witness ==
    /\ stage = "dmx_output"
    /\ beat_confidence = 10
    /\ Len(fixture_commands) = 1
    /\ fixture_commands[1].fixture_type = "laser"
    /\ fixture_commands[1].channel_values[10] = 36
    /\ fixture_commands[1].channel_values[13] = 12
    /\ dmx_universe[10] = 0

----------------------------------------------------------------------------
(* SpecArtnet: build_artdmx_packet and _artnet_universe_address applied to *)
(* arguments and settings drawn from bounded sets                          *)

\* b"Art-Net\x00"
ARTNET_HEADER == <<65, 114, 116, 45, 78, 101, 116, 0>>
\* 0x5000
ARTNET_OPCODE_DMX == 20480
ARTNET_PROTOCOL_VERSION == 14

\* x & mask of Python for a mask >= 0: bit by bit, a negative x taken in
\* two's complement (x % 2 is its low bit, x \div 2 the arithmetic shift)
RECURSIVE BitAnd(_, _)
BitAnd(x, mask) ==
    IF mask = 0 THEN 0
    ELSE (IF x % 2 = 1 /\ mask % 2 = 1 THEN 1 ELSE 0)
         + 2 * BitAnd(x \div 2, mask \div 2)

\* a | b of Python for a, b >= 0
RECURSIVE BitOr(_, _)
BitOr(a, b) ==
    IF a = 0 THEN b
    ELSE IF b = 0 THEN a
    ELSE (IF a % 2 = 1 \/ b % 2 = 1 THEN 1 ELSE 0)
         + 2 * BitOr(a \div 2, b \div 2)

\* a << n of Python
RECURSIVE ShiftLeft(_, _)
ShiftLeft(a, n) == IF n = 0 THEN a ELSE ShiftLeft(2 * a, n - 1)

\* struct.pack("<H", v) and struct.pack(">H", v) for v in 0..65535
StructPackLE16(v) == <<v % 256, v \div 256>>
StructPackBE16(v) == <<v \div 256, v % 256>>

\* dmx_data.ljust(width, b"\x00") without the padding
BytesLjustNone(data, width) == data

\* dmx_data.ljust(width, b"\x00")
BytesLjust(data, width) ==
    IF Len(data) >= width THEN data
    ELSE data \o [i \in 1..(width - Len(data)) |-> 0]

\* len(dmx_data) >= DMX_CHANNEL_COUNT in place of the test of the code
PayloadTooLargeInclusive(dmx_data) == Len(dmx_data) >= DMX_CHANNEL_COUNT

\* the test that makes build_artdmx_packet raise ValueError
PayloadTooLarge(dmx_data) == Len(dmx_data) > DMX_CHANNEL_COUNT

\* build_artdmx_packet past its length test; port_address is its argument
\* universe
build_artdmx_packet(port_address, dmx_data, sequence, physical) ==
    LET payload == BytesLjust(dmx_data, DMX_CHANNEL_COUNT)
        length == Len(payload)
    IN  ARTNET_HEADER
        \o StructPackLE16(ARTNET_OPCODE_DMX)
        \o StructPackBE16(ARTNET_PROTOCOL_VERSION)
        \o <<BitAnd(sequence, 255), BitAnd(physical, 255)>>
        \o StructPackLE16(BitAnd(port_address, 32767))
        \o StructPackBE16(length)
        \o payload

\* the three fields put together without their masks
artnet_universe_address_unmasked(config) ==
    BitOr(BitOr(ShiftLeft(PyMax(0, config.artnet_net), 8),
                ShiftLeft(PyMax(0, config.artnet_subnet), 4)),
          PyMax(0, config.universe))

\* DMXOutputNode._artnet_universe_address
artnet_universe_address(config) ==
    BitOr(BitOr(ShiftLeft(BitAnd(config.artnet_net, 127), 8),
                ShiftLeft(BitAnd(config.artnet_subnet, 15), 4)),
          BitAnd(config.universe, 15))

\* the settings DMXConfig accepts: any integers
ArtnetNets == {0, 1, 127, 128, -1}
ArtnetSubnets == {0, 2, 15, 16}
ArtnetUniverses == {0, 3, 16, -1}
ArtnetConfigs ==
    [artnet_net : ArtnetNets, artnet_subnet : ArtnetSubnets,
     universe : ArtnetUniverses]

\* payloads: n bytes, the i-th being (first + i - 1) % 256
Payload(n, first) == [i \in 1..n |-> (first + i - 1) % 256]
PayloadLengths == {0, 1, 511, 512, 513, 600}
PayloadFirsts == {7, 255}
Payloads == {Payload(n, first) : n \in PayloadLengths, first \in PayloadFirsts}

\* the other arguments of build_artdmx_packet: any integers
UniverseArgs == {0, 291, 33059, -1}
SequenceArgs == {5, 261, -1}
PhysicalArgs == {0, 258}

InitArtnet ==
    /\ InitFrame /\ InitInterpreter /\ InitInterlock /\ InitOutput
    /\ dmx_double_buffer = TRUE
    /\ interface_type = "artnet"
    /\ IdleWatchdog
    /\ InitRun
    /\ InitLife
    /\ start_exc = NoException
    /\ \E config \in ArtnetConfigs : NoArtnetCall(config)
    /\ InitCallback(TRUE)

\* a call of DMXOutputNode._artnet_universe_address
ArtnetUniverseAddress ==
    /\ an_pc = "idle"
    /\ an_address' = artnet_universe_address(artnet_config)
    /\ an_pc' = "addressed"
    /\ UNCHANGED <<pipeVars, wdVars, runVars, lifeVars, errVars,
                   max_delta_per_frame, raceVars, artnet_config, an_call,
                   an_packet, an_raised, ub_universe, ub_payload>>

\* a call of build_artdmx_packet that returns
BuildArtdmxPacket ==
    /\ an_pc = "idle"
    /\ \E port_address \in UniverseArgs, dmx_data \in Payloads,
          sequence \in SequenceArgs, physical \in PhysicalArgs :
          /\ ~PayloadTooLarge(dmx_data)
          /\ an_call' = [universe |-> port_address, dmx_data |-> dmx_data,
                         sequence |-> sequence, physical |-> physical]
          /\ an_packet' = build_artdmx_packet(port_address, dmx_data, sequence,
                                              physical)
    /\ an_raised' = "None"
    /\ an_pc' = "built"
    /\ UNCHANGED <<pipeVars, wdVars, runVars, lifeVars, errVars,
                   max_delta_per_frame, raceVars, artnet_config, an_address,
                   ub_universe, ub_payload>>

\* a call of build_artdmx_packet that raises
BuildArtdmxPacketRaises ==
    /\ an_pc = "idle"
    /\ \E port_address \in UniverseArgs, dmx_data \in Payloads,
          sequence \in SequenceArgs, physical \in PhysicalArgs :
          /\ PayloadTooLarge(dmx_data)
          /\ an_call' = [universe |-> port_address, dmx_data |-> dmx_data,
                         sequence |-> sequence, physical |-> physical]
    /\ an_raised' = "ValueError"
    /\ an_pc' = "failed"
    /\ UNCHANGED <<pipeVars, wdVars, runVars, lifeVars, errVars,
                   max_delta_per_frame, raceVars, artnet_config, an_address,
                   an_packet, ub_universe, ub_payload>>

\* full universe buffers: the fresh one, the one of the unit test, and two
\* with every slot set, the second with a non-zero byte 0
UniverseBuffers ==
    { create_universe_buffer,
      [create_universe_buffer EXCEPT ![1] = 11, ![512] = 99],
      [i \in 0..(DMX_UNIVERSE_SIZE - 1) |-> IF i = 0 THEN 0 ELSE (7 * i) % 256],
      [i \in 0..(DMX_UNIVERSE_SIZE - 1) |-> (255 - i) % 256] }

\* a call of extract_channel_payload
ExtractChannelPayload ==
    /\ an_pc = "idle"
    /\ \E u \in UniverseBuffers :
          /\ ub_universe' = u
          /\ ub_payload' = extract_channel_payload(u)
    /\ an_pc' = "extracted"
    /\ UNCHANGED <<pipeVars, wdVars, runVars, lifeVars, errVars,
                   max_delta_per_frame, raceVars, artnet_config, an_address,
                   an_call, an_packet, an_raised>>

NextArtnet ==
    \/ ArtnetUniverseAddress
    \/ BuildArtdmxPacket
    \/ BuildArtdmxPacketRaises
    \/ ExtractChannelPayload

SpecArtnet == InitArtnet /\ [][NextArtnet]_vars

\* the byte at offset k of a packet, counted from 0 as the layout does
ByteAt(packet, k) == packet[k + 1]

\* C18: for every universe address, payload of 0..512 bytes, sequence and
\* physical value, the packet build_artdmx_packet returns has exactly 530
\* bytes: the header "Art-Net" and a zero byte, the opcode bytes 00 50, the
\* version bytes 00 0e, sequence & 0xFF, physical & 0xFF, universe & 0x7FFF
\* low byte first, a length field high byte first, then the payload unchanged
\* and zero bytes up to 512
C18_PacketLayout ==
    (an_pc = "built") =>
        LET n == Len(an_call.dmx_data)
            masked == an_call.universe % 32768
            field == 256 * ByteAt(an_packet, 16) + ByteAt(an_packet, 17)
        IN  /\ n \in 0..512
            /\ Len(an_packet) = 530
            /\ SubSeq(an_packet, 1, 8) = <<65, 114, 116, 45, 78, 101, 116, 0>>
            /\ ByteAt(an_packet, 8) = 0 /\ ByteAt(an_packet, 9) = 80
            /\ ByteAt(an_packet, 10) = 0 /\ ByteAt(an_packet, 11) = 14
            /\ ByteAt(an_packet, 12) = an_call.sequence % 256
            /\ ByteAt(an_packet, 13) = an_call.physical % 256
            /\ ByteAt(an_packet, 14) = masked % 256
            /\ ByteAt(an_packet, 15) = masked \div 256
            /\ field = 512
            /\ \A i \in 1..n : ByteAt(an_packet, 17 + i) = an_call.dmx_data[i]
            /\ \A i \in (n + 1)..512 : ByteAt(an_packet, 17 + i) = 0
            /\ \A k \in 0..529 : ByteAt(an_packet, k) \in 0..255

\* a one-byte payload sent with sequence 261, physical 258 and universe
\* 0x8123 has come back as a packet of 530 bytes
C18_Witness ==
    /\ an_pc = "built"
    /\ an_call = [universe |-> 33059, dmx_data |-> <<255>>, sequence |-> 261,
                  physical |-> 258]
    /\ Len(an_packet) = 530
    /\ ByteAt(an_packet, 12) = 5
    /\ ByteAt(an_packet, 13) = 2
    /\ ByteAt(an_packet, 14) = 35
    /\ ByteAt(an_packet, 15) = 1
    /\ ByteAt(an_packet, 18) = 255
    /\ ByteAt(an_packet, 19) = 0

\* C19: build_artdmx_packet fails with an error and returns no packet
\* exactly when the payload is longer than 512 bytes; a payload of exactly
\* 512 bytes succeeds
C19_FailsOnlyAbove512 ==
    (an_pc \in {"built", "failed"}) =>
        /\ (an_raised # "None") <=> (Len(an_call.dmx_data) > 512)
        /\ (an_raised # "None") => (an_pc = "failed" /\ an_packet = << >>)
        /\ (an_raised = "None") => (an_pc = "built" /\ an_packet # << >>)

\* a payload of exactly 512 bytes has come back as a packet
C19_Witness ==
    /\ an_pc = "built"
    /\ Len(an_call.dmx_data) = 512
    /\ an_raised = "None"
    /\ Len(an_packet) = 530
    /\ ByteAt(an_packet, 529) = an_call.dmx_data[512]

\* C20: for all integer net, subnet and universe settings the port address
\* is ((net & 0x7F) << 8) | ((subnet & 0x0F) << 4) | (universe & 0x0F): it
\* lies in 0..0x7FFF and its three fields do not overlap, bits 8..14 being
\* the net, bits 4..7 the subnet and bits 0..3 the universe
C20_PortAddress ==
    (an_pc = "addressed") =>
        LET net == artnet_config.artnet_net % 128
            subnet == artnet_config.artnet_subnet % 16
            uni == artnet_config.universe % 16
        IN  /\ an_address = 256 * net + 16 * subnet + uni
            /\ an_address \in 0..32767
            /\ an_address \div 256 = net
            /\ (an_address \div 16) % 16 = subnet
            /\ an_address % 16 = uni

\* net 128, subnet 16 and universe -1 have given the address 0x000F
C20_Witness ==
    /\ an_pc = "addressed"
    /\ artnet_config = [artnet_net |-> 128, artnet_subnet |-> 16, universe |-> -1]
    /\ an_address = 15

\* C21: create_universe_buffer() returns 513 bytes that are all zero, byte 0
\* being the start code, and for every 513-byte universe u the payload
\* extract_channel_payload(u) has 512 bytes with payload[i] = u[i + 1] for
\* i in 0..511
C21_UniversePayload ==
    /\ (an_pc = "idle") =>
          /\ DOMAIN ub_universe = 0..512
          /\ \A i \in 0..512 : ub_universe[i] = 0
    /\ (an_pc = "extracted") =>
          /\ DOMAIN ub_universe = 0..512
          /\ DOMAIN ub_payload = 0..511
          /\ \A i \in 0..511 : ub_payload[i] = ub_universe[i + 1]

\* the payload of a universe whose byte 0 is 255 starts with its slot 1
C21_Witness ==
    /\ an_pc = "extracted"
    /\ ub_universe[0] = 255
    /\ ub_universe[1] = 254
    /\ ub_payload[0] = 254
    /\ ub_payload[511] = ub_universe[512]

----------------------------------------------------------------------------
(* The emergency-stop latch, under Spec *)

\* a tick of the interlock
InterlockTick == stage = "safety_interlock" /\ stage' = "dmx_output"

\* C22: trigger_emergency_stop and reset_emergency_stop are idempotent and
\* are the only operations that change the emergency-stop latch: a step that
\* changes the latch changes nothing else and no stage of a tick changes it,
\* a trigger leaves it set and a reset leaves it clear whatever it was
\* before, every tick of the interlock with the latch set reports
\* emergency_stop, laser_enabled = False, ok = False and the error
\* "emergency_stop_active", also on a heartbeat timeout, and every tick with
\* the latch clear reports emergency_stop = False
C22_EmergencyStopLatch ==
    [][ /\ (emergency_stop' # emergency_stop) =>
              UNCHANGED <<frameVars, interpVars, outVars, ioVars, wdVars,
                          runVars, extVars, si_last_heartbeat,
                          strobe_timestamps, strobe_start_time, in_cooldown,
                          cooldown_end, last_strobe_active>>
        /\ (stage' # stage) => (emergency_stop' = emergency_stop)
        /\ trigger_emergency_stop => emergency_stop'
        /\ reset_emergency_stop => ~emergency_stop'
        /\ InterlockTick =>
              /\ safety_state'.emergency_stop = emergency_stop
              /\ safety_state'.laser_enabled = ~emergency_stop
              /\ emergency_stop =>
                    /\ ~safety_state'.ok
                    /\ safety_state'.error_state = "emergency_stop_active"
      ]_vars

\* the latch was set before the tick, and the tick has reported it over a
\* blacked-out universe
C22_Witness ==
    /\ stage = "dmx_output"
    /\ emergency_stop
    /\ safety_state.emergency_stop
    /\ ~safety_state.laser_enabled
    /\ ~safety_state.ok
    /\ safety_state.error_state = "emergency_stop_active"
    /\ safety_state.last_heartbeat = timestamp
    /\ dmx_universe = emergency_blackout

----------------------------------------------------------------------------
(* HeartbeatWatchdog statement by statement: _run_loop reads the clock and *)
(* the heartbeat, tests the latch, sets it and calls self._on_timeout;     *)
(* beat() writes the heartbeat and then clears the latch. Neither takes a  *)
(* lock.                                                                   *)

\* what neither the watchdog thread nor beat() touches
restVars == <<runVars, lifeVars, errVars, max_delta_per_frame, artnetVars>>

\* _run_loop: time.sleep returns and elapsed = time.monotonic() - heartbeat
WdWake ==
    /\ wd_pc = "sleep"
    /\ wd_now >= wd_wake
    /\ wd_elapsed' = wd_now - wd_last_heartbeat
    /\ wd_pc' = "compare"
    /\ UNCHANGED <<pipeVars, restVars, wd_now, wd_timeout_s, wd_check_interval_s,
                   wd_last_heartbeat, wd_timeout_triggered, wd_running,
                   wd_wake, wd_started_at, wd_callbacks, wd_on_timeout,
                   out_offers_request, beat_pc, wd_fired_since_beat>>

\* _run_loop: `if elapsed > self._timeout_s and not self._timeout_triggered`
WdCompare ==
    /\ wd_pc = "compare"
    /\ wd_pc' = IF WdElapsed(wd_elapsed, wd_timeout_s) /\ ~wd_timeout_triggered
                THEN "latch" ELSE "loop"
    /\ UNCHANGED <<pipeVars, restVars, wd_now, wd_timeout_s, wd_check_interval_s,
                   wd_last_heartbeat, wd_timeout_triggered, wd_running,
                   wd_wake, wd_started_at, wd_callbacks, raceVars>>

\* _run_loop: self._timeout_triggered = True
WdSetLatch ==
    /\ wd_pc = "latch"
    /\ wd_timeout_triggered' = TRUE
    /\ wd_pc' = "callback"
    /\ UNCHANGED <<pipeVars, restVars, wd_now, wd_timeout_s, wd_check_interval_s,
                   wd_last_heartbeat, wd_running, wd_wake, wd_started_at,
                   wd_callbacks, raceVars>>

\* _run_loop: self._on_timeout() when it is request_blackout, which sets
\* the blackout latch of the output and takes no lock
WdCallbackRequest ==
    /\ wd_pc = "callback"
    /\ wd_on_timeout = "request_blackout"
    /\ blackout_requested' = TRUE
    /\ wd_callbacks' = wd_callbacks + 1
    /\ wd_fired_since_beat' = wd_fired_since_beat + 1
    /\ wd_pc' = "loop"
    /\ UNCHANGED <<frameVars, interpVars, silVars, universe, dmx_double_buffer,
                   raised, ioVars, restVars, wd_now, wd_timeout_s,
                   wd_check_interval_s, wd_last_heartbeat, wd_timeout_triggered,
                   wd_running, wd_wake, wd_started_at, wd_on_timeout,
                   out_offers_request, wd_elapsed, beat_pc>>

\* _run_loop: self._on_timeout() when it is blackout, up to the end of its
\* `with self._lock:` block
WdCallbackBlackout ==
    /\ wd_pc = "callback"
    /\ wd_on_timeout = "blackout"
    /\ LockFree
    /\ universe' = create_universe_buffer
    /\ last_complete' = create_universe_buffer
    /\ wd_pc' = "blackout_set"
    /\ UNCHANGED <<frameVars, interpVars, silVars, blackout_requested,
                   dmx_double_buffer, raised, interface_type, lock, out_running,
                   tx_thread, transport_attr, transport_state, frames_sent,
                   errors, out_pc, next_universe, apply_todo, mon_pc, tx_pc,
                   tx_data, wire, restVars, wd_now, wd_timeout_s,
                   wd_check_interval_s, wd_last_heartbeat, wd_timeout_triggered,
                   wd_running, wd_wake, wd_started_at, wd_callbacks, raceVars>>

\* _run_loop: the rest of blackout(), self._blackout_requested.set()
WdCallbackBlackoutSet ==
    /\ wd_pc = "blackout_set"
    /\ blackout_requested' = TRUE
    /\ wd_callbacks' = wd_callbacks + 1
    /\ wd_fired_since_beat' = wd_fired_since_beat + 1
    /\ wd_pc' = "loop"
    /\ UNCHANGED <<frameVars, interpVars, silVars, universe, dmx_double_buffer,
                   raised, ioVars, restVars, wd_now, wd_timeout_s,
                   wd_check_interval_s, wd_last_heartbeat, wd_timeout_triggered,
                   wd_running, wd_wake, wd_started_at, wd_on_timeout,
                   out_offers_request, wd_elapsed, beat_pc>>

\* beat(): self._last_heartbeat = time.monotonic()
BeatStamp ==
    /\ beat_pc = "idle"
    /\ wd_last_heartbeat' = wd_now
    /\ beat_pc' = "reset"
    /\ UNCHANGED <<pipeVars, restVars, wd_now, wd_timeout_s, wd_check_interval_s,
                   wd_timeout_triggered, wd_running, wd_pc, wd_wake,
                   wd_started_at, wd_callbacks, wd_on_timeout,
                   out_offers_request, wd_elapsed, wd_fired_since_beat>>

\* (a beat() that would also clear the blackout latch of the output)
BeatResetClearsLatch ==
    /\ beat_pc = "reset"
    /\ wd_timeout_triggered' = FALSE
    /\ beat_pc' = "idle"
    /\ wd_fired_since_beat' = 0
    /\ blackout_requested' = FALSE
    /\ UNCHANGED <<frameVars, interpVars, silVars, universe, dmx_double_buffer,
                   raised, ioVars, restVars, wd_now, wd_timeout_s,
                   wd_check_interval_s, wd_last_heartbeat, wd_running, wd_pc,
                   wd_wake, wd_started_at, wd_callbacks, wd_on_timeout,
                   out_offers_request, wd_elapsed>>

\* beat(): self._timeout_triggered = False, and the call returns
BeatReset ==
    /\ beat_pc = "reset"
    /\ wd_timeout_triggered' = FALSE
    /\ beat_pc' = "idle"
    /\ wd_fired_since_beat' = 0
    /\ UNCHANGED <<pipeVars, restVars, wd_now, wd_timeout_s, wd_check_interval_s,
                   wd_last_heartbeat, wd_running, wd_pc, wd_wake, wd_started_at,
                   wd_callbacks, wd_on_timeout, out_offers_request, wd_elapsed>>

----------------------------------------------------------------------------
(* SpecCallback: the watchdog fires during a stall while the pipeline and  *)
(* the transmit thread work on the universe of the output                  *)

\* the length of the stall, more than the timeout of the watchdog
StallLength == 6

\* the clock jumps over a stall of the pipeline
StallClock ==
    /\ wd_now = 0
    /\ wd_now' = StallLength
    /\ UNCHANGED <<pipeVars, runVars, extVars, wd_timeout_s, wd_check_interval_s,
                   wd_last_heartbeat, wd_timeout_triggered, wd_running, wd_pc,
                   wd_wake, wd_started_at, wd_callbacks>>

\* _send_frame: `with self._lock:` entered
TxReadAcquire ==
    /\ tx_pc = "read"
    /\ LockFree
    /\ lock' = "transmit"
    /\ tx_pc' = "reading"
    /\ UNCHANGED <<tickVars, fixture_commands, dmx_universe, outVars,
                   interface_type, out_running, tx_thread, transport_attr,
                   transport_state, frames_sent, errors, out_pc, next_universe,
                   apply_todo, mon_pc, tx_data, wire, last_complete>>

\* _send_frame: data = bytes(self._universe) and the end of the block
TxReadRelease ==
    /\ tx_pc = "reading"
    /\ tx_data' = universe
    /\ lock' = "free"
    /\ tx_pc' = "check"
    /\ UNCHANGED <<tickVars, fixture_commands, dmx_universe, outVars,
                   interface_type, out_running, tx_thread, transport_attr,
                   transport_state, frames_sent, errors, out_pc, next_universe,
                   apply_todo, mon_pc, wire, last_complete>>

InitCallbackSpec ==
    /\ InitFrame /\ InitInterpreter /\ InitInterlock /\ InitOutput
    /\ dmx_double_buffer \in BOOLEAN
    /\ interface_type = "enttec_open"
    /\ IdleWatchdog
    /\ InitRun
    /\ InitLife
    /\ start_exc = NoException
    /\ NoArtnetCall(DefaultArtnetConfig)
    /\ \E offers_request \in BOOLEAN : InitCallback(offers_request)

NextCallback ==
    \/ Call({<<OutCommandA>>})
    \/ CallBegin
    \/ CallSwap
    \/ CallApplyItem
    \/ CallApplyEnd
    \/ start
    \/ TxLoop
    \/ TxFrame
    \/ TxReadAcquire
    \/ TxReadRelease
    \/ TxCheck
    \/ TxWrite
    \/ wd_start
    \/ WdLoop
    \/ StallClock
    \/ WdWake
    \/ WdCompare
    \/ WdSetLatch
    \/ WdCallbackRequest
    \/ WdCallbackBlackout
    \/ WdCallbackBlackoutSet

SpecCallback == InitCallbackSpec /\ [][NextCallback]_vars

\* C23: when the output offers request_blackout, the timeout action of the
\* watchdog is request_blackout and never blackout(): the watchdog thread
\* never enters blackout(), its callback sets the blackout latch and leaves
\* the lock and everything else of the output alone, and a callback that is
\* due can run whoever holds the lock
C23_WatchdogNeverTakesLock ==
    [][ out_offers_request =>
          /\ wd_on_timeout = "request_blackout"
          /\ wd_pc' # "blackout_set"
          /\ (wd_pc = "callback") => ENABLED WdCallbackRequest
          /\ (wd_callbacks' # wd_callbacks) =>
                /\ blackout_requested'
                /\ UNCHANGED <<frameVars, interpVars, silVars, universe,
                               dmx_double_buffer, raised, ioVars>>
      ]_vars

\* the callback has set the latch while the pipeline held the lock in
\* apply(): the pipeline takes the lock only with the latch clear
C23_Witness ==
    /\ out_offers_request
    /\ lock = "pipeline"
    /\ blackout_requested
    /\ wd_callbacks = 1
    /\ wd_pc = "loop"

----------------------------------------------------------------------------
(* SpecBeat: the pipeline thread calls beat() at arbitrary times while the *)
(* watchdog thread polls                                                   *)

InitBeat ==
    /\ InitFrame /\ InitInterpreter /\ InitInterlock /\ InitOutput
    /\ dmx_double_buffer = TRUE
    /\ interface_type = "artnet"
    /\ IdleWatchdog
    /\ InitRun
    /\ InitLife
    /\ start_exc = NoException
    /\ NoArtnetCall(DefaultArtnetConfig)
    /\ InitCallback(TRUE)

NextBeat ==
    \/ WdClock
    \/ wd_start
    \/ WdLoop
    \/ WdWake
    \/ WdCompare
    \/ WdSetLatch
    \/ WdCallbackRequest
    \/ BeatStamp
    \/ BeatReset

SpecBeat == InitBeat /\ [][NextBeat]_vars

\* C24: between two consecutive beat() calls the watchdog invokes the
\* timeout callback at most once, however long the stall lasts and however
\* beat() interleaves with the poll: no more than one call of the callback
\* has been made since beat() last returned
C24_FiresOncePerStall ==
    wd_fired_since_beat <= 1

\* C29: the callback is invoked only if no beat() has occurred within the
\* timeout_s preceding the invocation, and the latch is never left set while
\* the heartbeat is fresh: a call of the callback finds the heartbeat older
\* than timeout_s, and once a poll is over and nobody is inside beat() a set
\* latch goes with a heartbeat older than timeout_s
C29_NoBlackoutAfterFreshBeat ==
    [][ /\ (wd_callbacks' # wd_callbacks) =>
              (wd_now - wd_last_heartbeat > wd_timeout_s)
        /\ (wd_timeout_triggered' /\ wd_pc' \in {"loop", "sleep"}
                /\ beat_pc' = "idle" /\ wd_running') =>
              (wd_now' - wd_last_heartbeat' > wd_timeout_s)
      ]_vars

----------------------------------------------------------------------------
(* SpecGraph: graph.invoke walks the edges of the compiled graph, one node *)
(* at a time; between two ticks the pipeline stands at "upstream"          *)

MaxGraphTime == 3

\* the nodes that run before the last fixture-control node
SensingNodes ==
    {"audio_sense", "feature_extract", "beat_track", "structure_detect",
     "midi_sense", "cv_sense", "fusion", "director_intent", "scene_select",
     "laser_control", "moving_head_control"}

\* PhotonicGraph.step: graph.invoke enters the graph at its entry point
GraphInvoke ==
    /\ stage = "upstream"
    /\ timestamp < MaxGraphTime
    /\ stage' = ENTRY_POINT
    /\ UNCHANGED <<timestamp, fixture_commands, dmx_universe, safety_state,
                   beat_confidence, strobe_budget, interpVars, silVars, outVars,
                   ioVars, wdVars, runVars, extVars>>

\* a node before the last fixture-control node returns and the graph follows
\* its edge; what these nodes write is written at panel_control
GraphSensingNode ==
    /\ stage \in SensingNodes
    /\ stage' = NextNode(stage)
    /\ UNCHANGED <<timestamp, fixture_commands, dmx_universe, safety_state,
                   beat_confidence, strobe_budget, interpVars, silVars, outVars,
                   ioVars, wdVars, runVars, extVars>>

NextGraph ==
    \/ GraphInvoke
    \/ GraphSensingNode
    \/ UpstreamAt("panel_control", InterpCommandLists, {1}, {100, 10}, {10},
                  MaxGraphTime)
    \/ InterpreterNode
    \/ SafetyInterlockNode
    \/ DMXOutputNode

SpecGraph == Init /\ [][NextGraph]_vars

\* the order of the stages within a tick
StageOrder ==
    <<"audio_sense", "feature_extract", "beat_track", "structure_detect",
      "midi_sense", "cv_sense", "fusion", "director_intent", "scene_select",
      "laser_control", "moving_head_control", "panel_control", "interpreter",
      "safety_interlock", "dmx_output">>

----------------------------------------------------------------------------
(* The safety_state of a tick against what the interlock did, under Spec *)

\* the interlock's degradation step changed a command or the universe copy
\* of this tick
DegradationScaled ==
    /\ DegradedTick
    /\ \/ fixture_commands' # BeforeDegradation.commands
       \/ dmx_universe' # BeforeDegradation.universe

\* the interlock returns from a tick in which it blacked out for a heartbeat
\* timeout or the emergency stop, held the strobe channels in cooldown, or
\* scaled values for low beat confidence
SafetyTransformationApplied ==
    /\ stage = "safety_interlock"
    /\ stage' = "dmx_output"
    /\ \/ HeartbeatTimedOut(timestamp, si_last_heartbeat)
       \/ emergency_stop
       \/ in_cooldown'
       \/ DegradationScaled

\* C26: on every tick in which the interlock applies a safety transformation
\* of one of the four kinds, the safety_state of that tick differs from
\* all-clear: ok is False or error_state is set
C26_TransformationIsFlagged ==
    [][ SafetyTransformationApplied =>
            \/ ~safety_state'.ok
            \/ safety_state'.error_state # "None" ]_vars

----------------------------------------------------------------------------
(* The universe the output commits during a strobe cooldown, under SpecStrobe *)

\* C27: while strobe cooldown is active, every known strobe channel of the
\* universe the output stage has committed at the end of the tick is 0, also
\* when no command of the tick addresses the channel and the value committed
\* before was not 0
C27_CooldownCommitsStrobeOff ==
    (stage = "upstream" /\ in_cooldown) =>
        \A ch \in derive_strobe_channels :
            is_valid_dmx_channel(ch) => universe[ch] = 0

----------------------------------------------------------------------------
(* The scan speed in the commands the interlock returns, under Spec *)

\* C28: for every enabled laser fixture and every tick, the value on the
\* fixture's scan-speed channel in the commands as they leave the safety
\* interlock is 0 or at least min_scan_speed, also on the ticks on which
\* graceful degradation scales the values
C28_ScanSpeedLeavesFloored ==
    [][ (stage = "safety_interlock" /\ stage' = "dmx_output") =>
          \A i \in 1..Len(fixture_commands') :
            \A k \in 1..Len(laser_fixtures) :
              ( /\ laser_fixtures[k].enabled
                /\ fixture_commands'[i].fixture_id = laser_fixtures[k].id ) =>
                  LET ch == laser_fixtures[k].start_address + speed_channel_offset
                      ch_vals == fixture_commands'[i].channel_values
                  IN  ch \in DOMAIN ch_vals =>
                          \/ ch_vals[ch] = 0
                          \/ ch_vals[ch] >= min_scan_speed
      ]_vars

----------------------------------------------------------------------------
(* The committed universe from one tick to the next, under Spec *)

\* C30: across the whole pipeline the value committed to the canonical
\* universe for a channel never rises by more than max_delta_per_frame from
\* one tick to the next, also on the ticks on which a strobe cooldown ends,
\* graceful degradation stops applying or a blackout has just been lifted
C30_CommittedRiseWithinDelta ==
    [][ (stage = "dmx_output" /\ stage' = "upstream") =>
          \A ch \in 1..DMX_CHANNEL_MAX :
              universe'[ch] - universe[ch] <= PyMax(1, max_delta_per_frame)
      ]_vars

----------------------------------------------------------------------------
(* The life of a strobe cooldown, under SpecStrobe *)

\* the interlock returns from a tick
InterlockReturns ==
    /\ stage = "safety_interlock"
    /\ stage' = "dmx_output"

\* the tick entered or re-entered cooldown: _cooldown_end was written
CooldownTriggered == cooldown_end' = timestamp + cooldown_s

\* the strobe channels of the commands and of the universe copy are as the
\* interlock received them
StrobeChannelsNotForced ==
    /\ \A i \in 1..Len(fixture_commands) :
          \A ch \in DOMAIN fixture_commands[i].channel_values :
              ch \in derive_strobe_channels =>
                  fixture_commands'[i].channel_values[ch] =
                      fixture_commands[i].channel_values[ch]
    /\ \A ch \in derive_strobe_channels :
          is_valid_dmx_channel(ch) => dmx_universe'[ch] = dmx_universe[ch]

\* C31: once entered, strobe cooldown stays active on every tick whose
\* timestamp is earlier than the time of the most recent trigger plus
\* cooldown_s; it is cleared on the first tick at or after that bound on
\* which no new trigger occurs, and on that clearing tick the onset window
\* is emptied, the strobe channels are not forced to 0 and strobe_enabled
\* is True
C31_CooldownLifetime ==
    [][ InterlockReturns =>
          /\ CooldownTriggered => in_cooldown'
          /\ (~CooldownTriggered) => cooldown_end' = cooldown_end
          /\ (in_cooldown /\ timestamp < cooldown_end') => in_cooldown'
          /\ (in_cooldown /\ timestamp >= cooldown_end /\ ~CooldownTriggered) =>
                /\ ~in_cooldown'
                /\ strobe_timestamps' = << >>
                /\ StrobeChannelsNotForced
                /\ safety_state'.strobe_enabled
      ]_vars

\* the clearing tick of a cooldown entered at 3: at 7 the strobe command of
\* the tick leaves the interlock as it came and the window is empty
C31_Witness ==
    /\ stage = "dmx_output"
    /\ timestamp = 7
    /\ cooldown_end = 7
    /\ ~in_cooldown
    /\ strobe_timestamps = << >>
    /\ safety_state.strobe_enabled
    /\ \E i \in 1..Len(fixture_commands) :
          /\ 26 \in DOMAIN fixture_commands[i].channel_values
          /\ fixture_commands[i].channel_values[26] > 0

----------------------------------------------------------------------------
(* SpecRate: a strobe that pulses as fast as a fast loop lets it; time in   *)
(* milliseconds, a tick every 3 ms, max_rate_hz 100                        *)

MaxRateTime == 909

\* safety.strobe with max_rate_hz = 100.0, the other limits as they default
FastStrobe == StrobeSafetyConfig(100, 5000, 2000, 1000)

RateTickSteps == {3}

\* the mover's strobe switched on and off
RateStrobeOn == FixtureCommand("mover-1", "moving_head", (26 :> 30))
RateStrobeOff == FixtureCommand("mover-1", "moving_head", (26 :> 0))

\* the fixture-control stages switch the strobe on after a tick the
\* interlock found without strobe activity and off after a tick it found
\* with activity; the strobe budget is the maximum rate, for which
\* strobe_budget_to_dmx is 255 whatever the rate is
RateUpstream ==
    \/ /\ ~last_strobe_active
       /\ UpstreamLists({<<RateStrobeOn>>}, RateTickSteps, {100}, {10}, MaxRateTime)
    \/ /\ last_strobe_active
       /\ UpstreamLists({<<RateStrobeOff>>}, RateTickSteps, {100}, {10}, MaxRateTime)

NextRate ==
    \/ RateUpstream
    \/ InterpreterNode
    \/ SafetyInterlockCall(FastStrobe)
    \/ DMXOutputNode

SpecRate == Init /\ [][NextRate]_vars

\* a known strobe channel is non-zero in the commands or in the incoming
\* universe snapshot
StrobeActivity ==
    \/ CommandStrobeActive(fixture_commands)
    \/ \E ch \in derive_strobe_channels :
          is_valid_dmx_channel(ch) /\ dmx_universe[ch] > 0

\* the timestamps in the onset window
Onsets(window) == {window[k] : k \in 1..Len(window)}

\* C32: a strobe onset is recorded exactly on the ticks on which strobe
\* activity goes from inactive on the previous tick to active; an onset
\* recorded within the last second stays in the count (until a cooldown
\* that ends empties the window); and whenever the number of onsets of the
\* last second exceeds max_rate_hz, cooldown is active at the end of the
\* tick, for every configured max_rate_hz
C32_OnsetsCountedInWindow ==
    [][ InterlockReturns =>
          /\ last_strobe_active' = StrobeActivity
          /\ (strobe_timestamps' # << >>) =>
                /\ (timestamp \in Onsets(strobe_timestamps'))
                       <=> (StrobeActivity /\ ~last_strobe_active)
                /\ \A onset \in Onsets(strobe_timestamps) :
                       (timestamp - onset <= FastStrobe.second)
                           => onset \in Onsets(strobe_timestamps')
          /\ (Len(strobe_timestamps') > FastStrobe.max_rate_hz) => in_cooldown'
      ]_vars

----------------------------------------------------------------------------
(* SpecHeartbeat: ticks of the pipeline, some of them late, with the       *)
(* emergency stop and the watchdog thread running on its own clock         *)

MaxHbTime == 6
MaxHbClock == 6

\* the command of every tick
HbCommand == FixtureCommand("panel-1", "panel", (13 :> 255))

\* time.monotonic() advances
HbClock ==
    /\ wd_now < MaxHbClock
    /\ WdClock

NextHeartbeat ==
    \/ UpstreamLists({<<HbCommand>>}, TickSteps, {100}, {10}, MaxHbTime)
    \/ InterpreterNode
    \/ SafetyInterlockNode
    \/ DMXOutputNode
    \/ trigger_emergency_stop
    \/ reset_emergency_stop
    \/ HbClock
    \/ wd_start
    \/ WdLoop
    \/ WdPoll

SpecHeartbeat == Init /\ [][NextHeartbeat]_vars

\* the tick comes more than heartbeat_timeout_s after the recorded heartbeat
HeartbeatLate == timestamp - si_last_heartbeat > heartbeat_timeout_s

\* the interlock records the tick as the new heartbeat and beats the watchdog
HeartbeatRecorded ==
    /\ si_last_heartbeat' = timestamp
    /\ wd_last_heartbeat' = wd_now
    /\ ~wd_timeout_triggered'

\* C33 as stated: an interlock tick that comes more than heartbeat_timeout_s
\* after the recorded heartbeat reports ok=False with a heartbeat-timeout
\* error_state and its universe copy is all-zero; every tick records its
\* timestamp as the new heartbeat and beats the watchdog, and a tick that
\* comes within the timeout is not flagged
C33_LateTickReportsTimeout ==
    [][ InterlockReturns =>
          /\ HeartbeatLate =>
                /\ ~safety_state'.ok
                /\ safety_state'.error_state = "heartbeat_timeout"
                /\ dmx_universe' = emergency_blackout
          /\ (~HeartbeatLate) => safety_state'.error_state # "heartbeat_timeout"
          /\ HeartbeatRecorded
      ]_vars

\* C33, amended: an interlock tick that comes more than heartbeat_timeout_s
\* after the recorded heartbeat reports ok=False and its universe copy is
\* all-zero; its error_state is the heartbeat timeout unless the emergency
\* stop is latched, which reports emergency_stop_active instead; every tick
\* records its timestamp as the new heartbeat and beats the watchdog, and a
\* tick that comes within the timeout is not flagged
C33_LateTickDetected ==
    [][ InterlockReturns =>
          /\ HeartbeatLate =>
                /\ ~safety_state'.ok
                /\ safety_state'.error_state =
                       IF emergency_stop THEN "emergency_stop_active"
                       ELSE "heartbeat_timeout"
                /\ dmx_universe' = emergency_blackout
          /\ (~HeartbeatLate) => safety_state'.error_state # "heartbeat_timeout"
          /\ HeartbeatRecorded
      ]_vars

\* the second of two ticks, at 5 and at 6: the late tick at 5 was flagged,
\* the tick at 6, within the timeout, is not; the watchdog, which had
\* fired, is re-armed at the time of that tick
C33_Witness ==
    /\ stage = "dmx_output"
    /\ timestamp = 6
    /\ last_channel_values[13] = 72
    /\ si_last_heartbeat = 6
    /\ safety_state.ok
    /\ safety_state.error_state = "None"
    /\ wd_callbacks = 1
    /\ ~wd_timeout_triggered
    /\ wd_last_heartbeat = wd_now
    /\ wd_now = 6

----------------------------------------------------------------------------
(* SpecState: ticks with a strobe command or none, some of them late, and  *)
(* the emergency stop                                                      *)

MaxStateTime == 7

StateTickSteps == {1, 2, 5}

\* the mover's strobe held on
StateCommand == FixtureCommand("mover-1", "moving_head", (20 :> 0) @@ (26 :> 30))

NextState ==
    \/ UpstreamLists({<< >>, <<StateCommand>>}, StateTickSteps, {100}, {10},
                     MaxStateTime)
    \/ InterpreterNode
    \/ SafetyInterlockNode
    \/ DMXOutputNode
    \/ trigger_emergency_stop
    \/ reset_emergency_stop

SpecState == Init /\ [][NextState]_vars

\* C34: at the end of every interlock tick, ok is False if and only if
\* error_state is non-null, if and only if the heartbeat timeout was detected
\* on this tick, the emergency stop is latched or strobe cooldown is active
\* at the end of the tick; strobe_enabled is not-in-cooldown, laser_enabled
\* is not-emergency-stop, and last_heartbeat is the timestamp of the tick
C34_SafetyStateRecord ==
    [][ InterlockReturns =>
          /\ (~safety_state'.ok) <=> (safety_state'.error_state # "None")
          /\ (~safety_state'.ok) <=>
                (HeartbeatLate \/ emergency_stop \/ in_cooldown')
          /\ safety_state'.strobe_enabled = ~in_cooldown'
          /\ safety_state'.laser_enabled = ~emergency_stop
          /\ safety_state'.emergency_stop = emergency_stop
          /\ safety_state'.last_heartbeat = timestamp
      ]_vars

\* a tick in cooldown that no violation of the tick itself explains: the
\* strobe limit was exceeded on an earlier tick
C34_Witness ==
    /\ stage = "dmx_output"
    /\ in_cooldown
    /\ ~emergency_stop
    /\ ~safety_state.ok
    /\ safety_state.error_state = "strobe_cooldown_active"
    /\ ~safety_state.strobe_enabled
    /\ safety_state.laser_enabled
    /\ safety_state.last_heartbeat = timestamp

----------------------------------------------------------------------------
(* The interlock's universe copy and the output's buffers, under Spec *)

\* C35: an interlock tick works on a value copy of the universe: whatever it
\* clamps, zeroes or scales in that copy, the canonical buffer of the output
\* stage, the one the transmit thread reads, is unchanged by the tick (and so
\* are the buffer being prepared and the last complete frame)
C35_InterlockLeavesCanonical ==
    [][ InterlockReturns =>
          /\ universe' = universe
          /\ next_universe' = next_universe
          /\ last_complete' = last_complete
      ]_vars

\* an emergency-stop tick has zeroed the interlock's copy while the canonical
\* buffer still holds the y-axis value committed on the tick before
C35_Witness ==
    /\ stage = "dmx_output"
    /\ emergency_stop
    /\ dmx_universe = emergency_blackout
    /\ universe[13] = 36

----------------------------------------------------------------------------
(* What a call of the output stage does to the buffers, under SpecOut *)

\* a finite value truncated to an integer and clamped to 0..255
StatedByte(fval) ==
    LET whole == IF fval.halves >= 0 THEN fval.halves \div 2
                 ELSE -((-fval.halves) \div 2)
    IN  IF whole < 0 THEN 0 ELSE IF whole > 255 THEN 255 ELSE whole

\* the commands of the list that address a channel with a finite value
Addressing(commands, ch) ==
    {i \in 1..Len(commands) :
        /\ ch \in DOMAIN commands[i].channel_values
        /\ commands[i].channel_values[ch].cls = "finite"}

\* the last of them in list order
LastAddressing(commands, ch) ==
    CHOOSE i \in Addressing(commands, ch) :
        \A j \in Addressing(commands, ch) : j <= i

\* the buffer the statement describes: every channel 1..512 addressed by a
\* finite value holds the value of the last command addressing it, every
\* other index holds what the buffer held before
StatedUniverse(before, commands) ==
    [ch \in DOMAIN before |->
        IF ch \in 1..512 /\ Addressing(commands, ch) # {}
        THEN StatedByte(commands[LastAddressing(commands, ch)].channel_values[ch])
        ELSE before[ch]]

\* no blackout is requested or being carried out
NoBlackout == ~blackout_requested /\ mon_pc = "idle"

\* the call returns: the frame state holds the canonical buffer and no command
CallReturnsClean ==
    /\ dmx_universe' = universe'
    /\ fixture_commands' = << >>

\* C36: when no blackout is requested, a call of the output stage sets each
\* channel 1..512 addressed by a finite value to that value truncated and
\* clamped to 0..255, later commands of the list overriding earlier ones, and
\* leaves every other channel at its committed value; in every branch, the
\* blackout one included, the call ends with state.dmx_universe equal to the
\* canonical buffer and state.fixture_commands empty
C36_ApplyCommitsCommands ==
    [][ /\ (out_pc = "call" /\ out_pc' = "idle") =>
              /\ blackout_requested
              /\ universe' = create_universe_buffer
              /\ CallReturnsClean
        /\ (out_pc = "swap" /\ out_pc' = "idle") =>
              /\ CallReturnsClean
              /\ NoBlackout =>
                    universe' = StatedUniverse(universe, fixture_commands)
        /\ (out_pc = "apply" /\ out_pc' = "apply") =>
              \A ch \in DOMAIN universe :
                  universe'[ch] # universe[ch] =>
                      /\ ch \in 1..512
                      /\ Addressing(fixture_commands, ch) # {}
        /\ (out_pc = "apply" /\ out_pc' = "idle") =>
              /\ CallReturnsClean
              /\ universe' = universe
              /\ universe = StatedUniverse(universe, fixture_commands)
      ]_vars

\* a call with two commands has returned in either buffer mode: channel 2,
\* addressed with 300.0 and then with 7.5, holds 7; the channels addressed
\* with NaN and infinities keep their values
C36_Witness ==
    /\ out_pc = "idle"
    /\ fixture_commands = << >>
    /\ ~blackout_requested
    /\ universe[2] = 7
    /\ universe[1] = 255
    /\ universe[3] = 0
    /\ dmx_universe = universe

----------------------------------------------------------------------------
(* SpecModes: calls of the output stage in either buffer mode, with        *)
(* request_blackout at any moment and set_channel between the calls        *)

NextModes ==
    \/ Call(OutCommandLists)
    \/ CallBegin
    \/ CallSwap
    \/ CallApplyItem
    \/ CallApplyEnd
    \/ \E a \in SetChannelArgs : set_channel(a[1], a[2])
    \/ set_channel_clear
    \/ MonitorRequestBlackout

SpecModes == InitOut /\ [][NextModes]_vars

\* a call of the output stage returns or raises
CallEnds ==
    /\ out_pc \in {"call", "swap", "apply"}
    /\ out_pc' = "idle"

\* what the call would have left in the other buffer mode, from the
\* canonical buffer and the latch it found
OtherMode ==
    OutputApply(last_complete, out_pc = "call" /\ blackout_requested,
                ~dmx_double_buffer, fixture_commands)

\* C37: for every sequence of calls of the output stage, with request_blackout
\* calls interspersed and no concurrent set_channel, the canonical buffer and
\* the returned state after each call are the same with dmx_double_buffer
\* enabled and disabled: from every state either mode reaches, a call
\* leaves what the other mode would leave
C37_BufferModesAgree ==
    [][ CallEnds =>
          /\ universe' = OtherMode.universe
          /\ dmx_universe' = OtherMode.state_universe
          /\ raised' = OtherMode.err
          /\ fixture_commands' = << >>
      ]_vars

\* a call without double buffering has committed two commands over a
\* channel written by set_channel
C37_Witness ==
    /\ ~dmx_double_buffer
    /\ out_pc = "idle"
    /\ fixture_commands = << >>
    /\ universe[1] = 255
    /\ universe[2] = 7
    /\ dmx_universe = universe
    /\ blackout_requested

----------------------------------------------------------------------------
(* A stop() from the signal handler while run_loop executes, under SpecRun *)

\* the loop starts a tick: `while self._running` passes and step() is called
TickStarts ==
    /\ run_pc = "loop"
    /\ run_pc' = "step"

\* C38: once stop() is called at any point while run_loop is executing, also
\* before run_loop has reached its own start() call, the loop starts no new
\* tick after the one in progress, and run_loop returns with all stages
\* stopped
C38_StopEndsLoop ==
    [][ /\ stop_signalled => ~TickStarts
        /\ (stop_signalled' /\ run_pc' = "returned") => g_nodes' = {}
      ]_vars

----------------------------------------------------------------------------
(* SpecLatch: the watchdog fires during a stall, heartbeats resume, and the *)
(* double-buffered output is called, started, stopped and written by       *)
(* set_channel                                                              *)

InitLatch ==
    /\ InitFrame /\ InitInterpreter /\ InitInterlock /\ InitOutput
    /\ dmx_double_buffer = TRUE
    /\ interface_type = "enttec_open"
    /\ IdleWatchdog
    /\ InitRun
    /\ InitExt

NextLatch ==
    \/ Call({<<OutCommandA>>})
    \/ CallBegin
    \/ CallSwap
    \/ \E a \in SetChannelArgs : set_channel(a[1], a[2])
    \/ set_channel_clear
    \/ start
    \/ StopBegin
    \/ StopJoined
    \/ StopJoinTimeout
    \/ StopBlackout
    \/ StopClose
    \/ TxLoop
    \/ TxFrame
    \/ TxRead
    \/ TxCheck
    \/ TxWrite
    \/ wd_start
    \/ WdLoop
    \/ StallClock
    \/ WdWake
    \/ WdCompare
    \/ WdSetLatch
    \/ WdCallbackRequest
    \/ BeatStamp
    \/ BeatReset

SpecLatch == InitLatch /\ [][NextLatch]_vars

\* C39: the blackout latch, once set, is cleared only by set_channel on a
\* valid channel; a call of the output stage, beat() of the watchdog, start()
\* and stop() of the output never clear it, so after a watchdog timeout
\* every call commits an all-zero universe and every frame the transmit
\* thread builds is all-zero, also after heartbeats have resumed
C39_LatchClearedOnlyBySetChannel ==
    [][ /\ (blackout_requested /\ ~blackout_requested')
              => (out_pc = "set_channel_clear" /\ out_pc' = "idle")
        /\ (wd_callbacks > 0 /\ blackout_requested /\ out_pc = "call"
                /\ out_pc' # "call")
              => (AllZero(universe') /\ AllZero(dmx_universe'))
        /\ (wd_callbacks > 0 /\ blackout_requested /\ tx_pc = "frame"
                /\ tx_pc' # "frame")
              => AllZero(tx_data')
      ]_vars

\* the watchdog has fired, a later beat() has reset it, and the output stage
\* is called over a canonical buffer that is not zero with the latch still set
C39_Witness ==
    /\ wd_callbacks = 1
    /\ ~wd_timeout_triggered
    /\ beat_pc = "idle"
    /\ wd_last_heartbeat = StallLength
    /\ blackout_requested
    /\ out_pc = "call"
    /\ ~AllZero(universe)

----------------------------------------------------------------------------
(* SpecQuiet: ticks with any strobe commands up to QuietAfter, then         *)
(* ticks without strobe commands for as long as the cooldown lasts;        *)
(* run_loop keeps ticking, so every stage that can run does run            *)

\* the latest timestamp of a tick with any commands, and of a tick
QuietAfter == 4
MaxQuietTime == 18

\* the fixture-control stages command every strobe channel off
StrobeOffList ==
    << FixtureCommand("mover-1", "moving_head", (20 :> 0) @@ (26 :> 0)),
       FixtureCommand("panel-1", "panel", (40 :> 0) @@ (44 :> 0)) >>

\* a strobe channel of the universe snapshot of the frame is on
SnapshotStrobeActive ==
    \E ch \in derive_strobe_channels :
        is_valid_dmx_channel(ch) /\ dmx_universe[ch] > 0

\* a tick after QuietAfter, while the cooldown lasts: the strobe channels are
\* commanded off, or nothing is commanded once the snapshot holds them off
QuietUpstream ==
    /\ in_cooldown
    /\ timestamp >= QuietAfter
    /\ UpstreamLists(IF SnapshotStrobeActive
                     THEN {StrobeOffList}
                     ELSE {<< >>, StrobeOffList},
                     StrobeTickSteps, {100}, {10}, MaxQuietTime)

NextQuiet ==
    \/ Upstream(StrobeMenu, StrobeTickSteps, {100}, {10}, QuietAfter)
    \/ QuietUpstream
    \/ InterpreterNode
    \/ SafetyInterlockNode
    \/ DMXOutputNode

\* a stage of the pipeline can run: every stage after the fixture-control
\* stages can, and those when a tick is left to start
StageCanRun ==
    \/ stage # "upstream"
    \/ \E dt \in StrobeTickSteps : timestamp + dt <= QuietAfter
    \/ /\ in_cooldown
       /\ timestamp >= QuietAfter
       /\ \E dt \in StrobeTickSteps : timestamp + dt <= MaxQuietTime

\* run_loop goes on: the stage that can run runs and hands over to the next
PipelineMoves ==
    /\ StageCanRun
    /\ stage' \in {"upstream", "interpreter", "safety_interlock", "dmx_output"}
    /\ stage' # stage

SpecQuiet == Init /\ [][NextQuiet]_vars /\ WF_stage(PipelineMoves)

\* C40: if from some tick onward no known strobe channel is non-zero in the
\* fixture commands or in the universe snapshot of the frame, and ticks keep
\* coming with increasing timestamps, then the strobe cooldown is eventually
\* cleared and strobe_enabled is True from then on
C40_QuietClearsCooldown ==
    (<>[](~StrobeActivity)) => <>[](~in_cooldown /\ safety_state.strobe_enabled)

\* a cooldown that was running at QuietAfter has been cleared by a later
\* tick without strobe activity
C40_Witness ==
    /\ timestamp > QuietAfter
    /\ cooldown_end > QuietAfter
    /\ stage = "upstream"
    /\ ~StrobeActivity
    /\ ~in_cooldown
    /\ strobe_timestamps = << >>
    /\ safety_state.strobe_enabled

====
